---------------------------- MODULE Spec2Model ----------------------------
(***************************************************************************)
(* Room / phase state machine of the Chameleon websocket server.           *)
(*                                                                         *)
(* Two programs are modelled side by side, selected by the variable        *)
(* `variant`, which is fixed by Init and never changes:                    *)
(*   "accusation"  src/unnamed/part_000 (hint -> accusation -> voting ->   *)
(*                 chameleon_guess -> finished)                            *)
(*   "simplified"  src/server.js        (hint -> voting -> finished)       *)
(*                                                                         *)
(* JavaScript strings are sequences of one-character strings, so that      *)
(* slice, trim, toLowerCase and length are computed, not assumed.  A       *)
(* JavaScript value coming out of JSON.parse is a record [t, v, e]: t is   *)
(* the kind of value ("undefined" for an absent field, "null", "boolean",  *)
(* "number", "string", "array", "object"); v is the characters of a        *)
(* string, and of String(x) for a number or a boolean x; e is the elements *)
(* of an array and the own properties of an object, in order.              *)
(* Message type names and error codes are protocol literals and stay TLA+  *)
(* strings.                                                                *)
(*                                                                         *)
(* ws.send on a socket that is not OPEN is dropped without an exception    *)
(* (the behaviour of ws >= 7), so `send` of part_000 and the guarded       *)
(* `send` of server.js deliver to the same sockets.                        *)
(*                                                                         *)
(* Neither program installs an uncaughtException handler: an exception     *)
(* thrown out of a 'message' listener ends the Node process.               *)
(***************************************************************************)
EXTENDS Integers, Sequences, FiniteSets, TLC

VARIABLES
  running,   \* the Node process has not exited
  variant,   \* which of the two server programs runs
  rooms,     \* const rooms = new Map(): code -> room object
  conns,     \* the ws objects ever accepted, by order of connection
  nextId,    \* let nextId = 1
  sent       \* frames written to sockets by the handler that ran last

vars == <<running, variant, rooms, conns, nextId, sent>>

-----------------------------------------------------------------------------
(* JavaScript values and strings *)

Undefined == [t |-> "undefined", v |-> <<>>, e |-> <<>>]
Null      == [t |-> "null", v |-> <<>>, e |-> <<>>]
Str(s)    == [t |-> "string", v |-> s, e |-> <<>>]
Num(ds)   == [t |-> "number", v |-> ds, e |-> <<>>]
Bool(b)   == [t |-> "boolean",
              v |-> IF b THEN <<"t","r","u","e">> ELSE <<"f","a","l","s","e">>,
              e |-> <<>>]
\* [x1, ..., xn]: es is the sequence of the elements, each a value
Arr(es)   == [t |-> "array", v |-> <<>>, e |-> es]
\* {k1: x1, ..., kn: xn}: ps is the sequence of the own properties, each a
\* record [k, x] of the key's characters and the value
Obj(ps)   == [t |-> "object", v |-> <<>>, e |-> ps]

\* !!x: false for undefined, null, false, 0 and "", true for every other
\* value, an empty array and an empty object among them
Truthy(x) ==
  CASE x.t = "undefined" -> FALSE
    [] x.t = "null" -> FALSE
    [] x.t = "boolean" -> x.v = <<"t","r","u","e">>
    [] x.t = "number" -> x.v # <<"0">>
    [] x.t = "string" -> x.v # <<>>
    [] x.t = "array" -> TRUE
    [] x.t = "object" -> TRUE

ToStringName == <<"t","o","S","t","r","i","n","g">>

RECURSIVE StringThrows(_)
\* String(x) throws a TypeError: x is an object with an own property
\* toString, which out of JSON.parse is no function (the inherited valueOf
\* returns the object, so no primitive is found), or an array whose join
\* meets such an element
StringThrows(x) ==
  CASE x.t = "object" -> \E i \in 1..Len(x.e) : x.e[i].k = ToStringName
    [] x.t = "array" -> \E i \in 1..Len(x.e) : StringThrows(x.e[i])
    [] OTHER -> FALSE

\* the outcome of an expression that throws a TypeError
TypeError == "TypeError"

RECURSIVE String(_)
\* String(x), the coercion applied to a property key and inside a template
\* literal: TypeError when it throws, else the characters; an array is its
\* elements joined by commas, null and undefined elements as nothing; a
\* plain object is [object Object]
String(x) ==
  LET RECURSIVE Join(_)
      Join(es) ==
        IF es = <<>> THEN <<>>
        ELSE (IF Head(es).t \in {"undefined", "null"} THEN <<>>
              ELSE String(Head(es)))
               \o (IF Len(es) > 1 THEN <<",">> ELSE <<>>)
               \o Join(Tail(es))
  IN CASE StringThrows(x) -> TypeError
       [] x.t = "undefined" -> <<"u","n","d","e","f","i","n","e","d">>
       [] x.t = "null" -> <<"n","u","l","l">>
       [] x.t = "array" -> Join(x.e)
       [] x.t = "object" ->
            <<"[","o","b","j","e","c","t"," ","O","b","j","e","c","t","]">>
       [] OTHER -> x.v

Min(a, b) == IF a < b THEN a ELSE b

\* s.slice(0, n) for n >= 0
Slice(s, n) == SubSeq(s, 1, Min(n, Len(s)))

Digit(d) == <<"0","1","2","3","4","5","6","7","8","9">>[d + 1]

RECURSIVE NumToString(_)
\* String(n) for an integer n >= 0
NumToString(n) ==
  IF n < 10 THEN <<Digit(n)>> ELSE NumToString(n \div 10) \o <<Digit(n % 10)>>

-----------------------------------------------------------------------------
(* Case tables of String.prototype.toLowerCase *)

\* A character is one UTF-16 code unit.  A printable ASCII character other
\* than the grave accent, and each of \t, \n, \r, \f, is written as
\* itself; every other code unit is written as the string "U+XXXX" of its
\* four hexadecimal digits and is still one character: "U+212A" is KELVIN
\* SIGN, "U+00A0" NO-BREAK SPACE.  A code point above U+FFFF is its
\* surrogate pair, two characters.  The tables are those of Unicode
\* 17.0.

\* the characters with a one-character lower case, and that lower case,
\* index by index
UpperCase ==
  <<"A","B","C","D","E","F","G","H","I","J","K","L","M","N","O","P","Q","R",
   "S","T","U","V","W","X","Y","Z","U+00C0","U+00C1","U+00C2","U+00C3",
   "U+00C4","U+00C5","U+00C6","U+00C7","U+00C8","U+00C9","U+00CA","U+00CB",
   "U+00CC","U+00CD","U+00CE","U+00CF","U+00D0","U+00D1","U+00D2","U+00D3",
   "U+00D4","U+00D5","U+00D6","U+00D8","U+00D9","U+00DA","U+00DB","U+00DC",
   "U+00DD","U+00DE","U+0100","U+0102","U+0104","U+0106","U+0108","U+010A",
   "U+010C","U+010E","U+0110","U+0112","U+0114","U+0116","U+0118","U+011A",
   "U+011C","U+011E","U+0120","U+0122","U+0124","U+0126","U+0128","U+012A",
   "U+012C","U+012E","U+0132","U+0134","U+0136","U+0139","U+013B","U+013D",
   "U+013F","U+0141","U+0143","U+0145","U+0147","U+014A","U+014C","U+014E",
   "U+0150","U+0152","U+0154","U+0156","U+0158","U+015A","U+015C","U+015E",
   "U+0160","U+0162","U+0164","U+0166","U+0168","U+016A","U+016C","U+016E",
   "U+0170","U+0172","U+0174","U+0176","U+0178","U+0179","U+017B","U+017D",
   "U+0181","U+0182","U+0184","U+0186","U+0187","U+0189","U+018A","U+018B",
   "U+018E","U+018F","U+0190","U+0191","U+0193","U+0194","U+0196","U+0197",
   "U+0198","U+019C","U+019D","U+019F","U+01A0","U+01A2","U+01A4","U+01A6",
   "U+01A7","U+01A9","U+01AC","U+01AE","U+01AF","U+01B1","U+01B2","U+01B3",
   "U+01B5","U+01B7","U+01B8","U+01BC","U+01C4","U+01C5","U+01C7","U+01C8",
   "U+01CA","U+01CB","U+01CD","U+01CF","U+01D1","U+01D3","U+01D5","U+01D7",
   "U+01D9","U+01DB","U+01DE","U+01E0","U+01E2","U+01E4","U+01E6","U+01E8",
   "U+01EA","U+01EC","U+01EE","U+01F1","U+01F2","U+01F4","U+01F6","U+01F7",
   "U+01F8","U+01FA","U+01FC","U+01FE","U+0200","U+0202","U+0204","U+0206",
   "U+0208","U+020A","U+020C","U+020E","U+0210","U+0212","U+0214","U+0216",
   "U+0218","U+021A","U+021C","U+021E","U+0220","U+0222","U+0224","U+0226",
   "U+0228","U+022A","U+022C","U+022E","U+0230","U+0232","U+023A","U+023B",
   "U+023D","U+023E","U+0241","U+0243","U+0244","U+0245","U+0246","U+0248",
   "U+024A","U+024C","U+024E","U+0370","U+0372","U+0376","U+037F","U+0386",
   "U+0388","U+0389","U+038A","U+038C","U+038E","U+038F","U+0391","U+0392",
   "U+0393","U+0394","U+0395","U+0396","U+0397","U+0398","U+0399","U+039A",
   "U+039B","U+039C","U+039D","U+039E","U+039F","U+03A0","U+03A1","U+03A3",
   "U+03A4","U+03A5","U+03A6","U+03A7","U+03A8","U+03A9","U+03AA","U+03AB",
   "U+03CF","U+03D8","U+03DA","U+03DC","U+03DE","U+03E0","U+03E2","U+03E4",
   "U+03E6","U+03E8","U+03EA","U+03EC","U+03EE","U+03F4","U+03F7","U+03F9",
   "U+03FA","U+03FD","U+03FE","U+03FF","U+0400","U+0401","U+0402","U+0403",
   "U+0404","U+0405","U+0406","U+0407","U+0408","U+0409","U+040A","U+040B",
   "U+040C","U+040D","U+040E","U+040F","U+0410","U+0411","U+0412","U+0413",
   "U+0414","U+0415","U+0416","U+0417","U+0418","U+0419","U+041A","U+041B",
   "U+041C","U+041D","U+041E","U+041F","U+0420","U+0421","U+0422","U+0423",
   "U+0424","U+0425","U+0426","U+0427","U+0428","U+0429","U+042A","U+042B",
   "U+042C","U+042D","U+042E","U+042F","U+0460","U+0462","U+0464","U+0466",
   "U+0468","U+046A","U+046C","U+046E","U+0470","U+0472","U+0474","U+0476",
   "U+0478","U+047A","U+047C","U+047E","U+0480","U+048A","U+048C","U+048E",
   "U+0490","U+0492","U+0494","U+0496","U+0498","U+049A","U+049C","U+049E",
   "U+04A0","U+04A2","U+04A4","U+04A6","U+04A8","U+04AA","U+04AC","U+04AE",
   "U+04B0","U+04B2","U+04B4","U+04B6","U+04B8","U+04BA","U+04BC","U+04BE",
   "U+04C0","U+04C1","U+04C3","U+04C5","U+04C7","U+04C9","U+04CB","U+04CD",
   "U+04D0","U+04D2","U+04D4","U+04D6","U+04D8","U+04DA","U+04DC","U+04DE",
   "U+04E0","U+04E2","U+04E4","U+04E6","U+04E8","U+04EA","U+04EC","U+04EE",
   "U+04F0","U+04F2","U+04F4","U+04F6","U+04F8","U+04FA","U+04FC","U+04FE",
   "U+0500","U+0502","U+0504","U+0506","U+0508","U+050A","U+050C","U+050E",
   "U+0510","U+0512","U+0514","U+0516","U+0518","U+051A","U+051C","U+051E",
   "U+0520","U+0522","U+0524","U+0526","U+0528","U+052A","U+052C","U+052E",
   "U+0531","U+0532","U+0533","U+0534","U+0535","U+0536","U+0537","U+0538",
   "U+0539","U+053A","U+053B","U+053C","U+053D","U+053E","U+053F","U+0540",
   "U+0541","U+0542","U+0543","U+0544","U+0545","U+0546","U+0547","U+0548",
   "U+0549","U+054A","U+054B","U+054C","U+054D","U+054E","U+054F","U+0550",
   "U+0551","U+0552","U+0553","U+0554","U+0555","U+0556","U+10A0","U+10A1",
   "U+10A2","U+10A3","U+10A4","U+10A5","U+10A6","U+10A7","U+10A8","U+10A9",
   "U+10AA","U+10AB","U+10AC","U+10AD","U+10AE","U+10AF","U+10B0","U+10B1",
   "U+10B2","U+10B3","U+10B4","U+10B5","U+10B6","U+10B7","U+10B8","U+10B9",
   "U+10BA","U+10BB","U+10BC","U+10BD","U+10BE","U+10BF","U+10C0","U+10C1",
   "U+10C2","U+10C3","U+10C4","U+10C5","U+10C7","U+10CD","U+13A0","U+13A1",
   "U+13A2","U+13A3","U+13A4","U+13A5","U+13A6","U+13A7","U+13A8","U+13A9",
   "U+13AA","U+13AB","U+13AC","U+13AD","U+13AE","U+13AF","U+13B0","U+13B1",
   "U+13B2","U+13B3","U+13B4","U+13B5","U+13B6","U+13B7","U+13B8","U+13B9",
   "U+13BA","U+13BB","U+13BC","U+13BD","U+13BE","U+13BF","U+13C0","U+13C1",
   "U+13C2","U+13C3","U+13C4","U+13C5","U+13C6","U+13C7","U+13C8","U+13C9",
   "U+13CA","U+13CB","U+13CC","U+13CD","U+13CE","U+13CF","U+13D0","U+13D1",
   "U+13D2","U+13D3","U+13D4","U+13D5","U+13D6","U+13D7","U+13D8","U+13D9",
   "U+13DA","U+13DB","U+13DC","U+13DD","U+13DE","U+13DF","U+13E0","U+13E1",
   "U+13E2","U+13E3","U+13E4","U+13E5","U+13E6","U+13E7","U+13E8","U+13E9",
   "U+13EA","U+13EB","U+13EC","U+13ED","U+13EE","U+13EF","U+13F0","U+13F1",
   "U+13F2","U+13F3","U+13F4","U+13F5","U+1C89","U+1C90","U+1C91","U+1C92",
   "U+1C93","U+1C94","U+1C95","U+1C96","U+1C97","U+1C98","U+1C99","U+1C9A",
   "U+1C9B","U+1C9C","U+1C9D","U+1C9E","U+1C9F","U+1CA0","U+1CA1","U+1CA2",
   "U+1CA3","U+1CA4","U+1CA5","U+1CA6","U+1CA7","U+1CA8","U+1CA9","U+1CAA",
   "U+1CAB","U+1CAC","U+1CAD","U+1CAE","U+1CAF","U+1CB0","U+1CB1","U+1CB2",
   "U+1CB3","U+1CB4","U+1CB5","U+1CB6","U+1CB7","U+1CB8","U+1CB9","U+1CBA",
   "U+1CBD","U+1CBE","U+1CBF","U+1E00","U+1E02","U+1E04","U+1E06","U+1E08",
   "U+1E0A","U+1E0C","U+1E0E","U+1E10","U+1E12","U+1E14","U+1E16","U+1E18",
   "U+1E1A","U+1E1C","U+1E1E","U+1E20","U+1E22","U+1E24","U+1E26","U+1E28",
   "U+1E2A","U+1E2C","U+1E2E","U+1E30","U+1E32","U+1E34","U+1E36","U+1E38",
   "U+1E3A","U+1E3C","U+1E3E","U+1E40","U+1E42","U+1E44","U+1E46","U+1E48",
   "U+1E4A","U+1E4C","U+1E4E","U+1E50","U+1E52","U+1E54","U+1E56","U+1E58",
   "U+1E5A","U+1E5C","U+1E5E","U+1E60","U+1E62","U+1E64","U+1E66","U+1E68",
   "U+1E6A","U+1E6C","U+1E6E","U+1E70","U+1E72","U+1E74","U+1E76","U+1E78",
   "U+1E7A","U+1E7C","U+1E7E","U+1E80","U+1E82","U+1E84","U+1E86","U+1E88",
   "U+1E8A","U+1E8C","U+1E8E","U+1E90","U+1E92","U+1E94","U+1E9E","U+1EA0",
   "U+1EA2","U+1EA4","U+1EA6","U+1EA8","U+1EAA","U+1EAC","U+1EAE","U+1EB0",
   "U+1EB2","U+1EB4","U+1EB6","U+1EB8","U+1EBA","U+1EBC","U+1EBE","U+1EC0",
   "U+1EC2","U+1EC4","U+1EC6","U+1EC8","U+1ECA","U+1ECC","U+1ECE","U+1ED0",
   "U+1ED2","U+1ED4","U+1ED6","U+1ED8","U+1EDA","U+1EDC","U+1EDE","U+1EE0",
   "U+1EE2","U+1EE4","U+1EE6","U+1EE8","U+1EEA","U+1EEC","U+1EEE","U+1EF0",
   "U+1EF2","U+1EF4","U+1EF6","U+1EF8","U+1EFA","U+1EFC","U+1EFE","U+1F08",
   "U+1F09","U+1F0A","U+1F0B","U+1F0C","U+1F0D","U+1F0E","U+1F0F","U+1F18",
   "U+1F19","U+1F1A","U+1F1B","U+1F1C","U+1F1D","U+1F28","U+1F29","U+1F2A",
   "U+1F2B","U+1F2C","U+1F2D","U+1F2E","U+1F2F","U+1F38","U+1F39","U+1F3A",
   "U+1F3B","U+1F3C","U+1F3D","U+1F3E","U+1F3F","U+1F48","U+1F49","U+1F4A",
   "U+1F4B","U+1F4C","U+1F4D","U+1F59","U+1F5B","U+1F5D","U+1F5F","U+1F68",
   "U+1F69","U+1F6A","U+1F6B","U+1F6C","U+1F6D","U+1F6E","U+1F6F","U+1F88",
   "U+1F89","U+1F8A","U+1F8B","U+1F8C","U+1F8D","U+1F8E","U+1F8F","U+1F98",
   "U+1F99","U+1F9A","U+1F9B","U+1F9C","U+1F9D","U+1F9E","U+1F9F","U+1FA8",
   "U+1FA9","U+1FAA","U+1FAB","U+1FAC","U+1FAD","U+1FAE","U+1FAF","U+1FB8",
   "U+1FB9","U+1FBA","U+1FBB","U+1FBC","U+1FC8","U+1FC9","U+1FCA","U+1FCB",
   "U+1FCC","U+1FD8","U+1FD9","U+1FDA","U+1FDB","U+1FE8","U+1FE9","U+1FEA",
   "U+1FEB","U+1FEC","U+1FF8","U+1FF9","U+1FFA","U+1FFB","U+1FFC","U+2126",
   "U+212A","U+212B","U+2132","U+2160","U+2161","U+2162","U+2163","U+2164",
   "U+2165","U+2166","U+2167","U+2168","U+2169","U+216A","U+216B","U+216C",
   "U+216D","U+216E","U+216F","U+2183","U+24B6","U+24B7","U+24B8","U+24B9",
   "U+24BA","U+24BB","U+24BC","U+24BD","U+24BE","U+24BF","U+24C0","U+24C1",
   "U+24C2","U+24C3","U+24C4","U+24C5","U+24C6","U+24C7","U+24C8","U+24C9",
   "U+24CA","U+24CB","U+24CC","U+24CD","U+24CE","U+24CF","U+2C00","U+2C01",
   "U+2C02","U+2C03","U+2C04","U+2C05","U+2C06","U+2C07","U+2C08","U+2C09",
   "U+2C0A","U+2C0B","U+2C0C","U+2C0D","U+2C0E","U+2C0F","U+2C10","U+2C11",
   "U+2C12","U+2C13","U+2C14","U+2C15","U+2C16","U+2C17","U+2C18","U+2C19",
   "U+2C1A","U+2C1B","U+2C1C","U+2C1D","U+2C1E","U+2C1F","U+2C20","U+2C21",
   "U+2C22","U+2C23","U+2C24","U+2C25","U+2C26","U+2C27","U+2C28","U+2C29",
   "U+2C2A","U+2C2B","U+2C2C","U+2C2D","U+2C2E","U+2C2F","U+2C60","U+2C62",
   "U+2C63","U+2C64","U+2C67","U+2C69","U+2C6B","U+2C6D","U+2C6E","U+2C6F",
   "U+2C70","U+2C72","U+2C75","U+2C7E","U+2C7F","U+2C80","U+2C82","U+2C84",
   "U+2C86","U+2C88","U+2C8A","U+2C8C","U+2C8E","U+2C90","U+2C92","U+2C94",
   "U+2C96","U+2C98","U+2C9A","U+2C9C","U+2C9E","U+2CA0","U+2CA2","U+2CA4",
   "U+2CA6","U+2CA8","U+2CAA","U+2CAC","U+2CAE","U+2CB0","U+2CB2","U+2CB4",
   "U+2CB6","U+2CB8","U+2CBA","U+2CBC","U+2CBE","U+2CC0","U+2CC2","U+2CC4",
   "U+2CC6","U+2CC8","U+2CCA","U+2CCC","U+2CCE","U+2CD0","U+2CD2","U+2CD4",
   "U+2CD6","U+2CD8","U+2CDA","U+2CDC","U+2CDE","U+2CE0","U+2CE2","U+2CEB",
   "U+2CED","U+2CF2","U+A640","U+A642","U+A644","U+A646","U+A648","U+A64A",
   "U+A64C","U+A64E","U+A650","U+A652","U+A654","U+A656","U+A658","U+A65A",
   "U+A65C","U+A65E","U+A660","U+A662","U+A664","U+A666","U+A668","U+A66A",
   "U+A66C","U+A680","U+A682","U+A684","U+A686","U+A688","U+A68A","U+A68C",
   "U+A68E","U+A690","U+A692","U+A694","U+A696","U+A698","U+A69A","U+A722",
   "U+A724","U+A726","U+A728","U+A72A","U+A72C","U+A72E","U+A732","U+A734",
   "U+A736","U+A738","U+A73A","U+A73C","U+A73E","U+A740","U+A742","U+A744",
   "U+A746","U+A748","U+A74A","U+A74C","U+A74E","U+A750","U+A752","U+A754",
   "U+A756","U+A758","U+A75A","U+A75C","U+A75E","U+A760","U+A762","U+A764",
   "U+A766","U+A768","U+A76A","U+A76C","U+A76E","U+A779","U+A77B","U+A77D",
   "U+A77E","U+A780","U+A782","U+A784","U+A786","U+A78B","U+A78D","U+A790",
   "U+A792","U+A796","U+A798","U+A79A","U+A79C","U+A79E","U+A7A0","U+A7A2",
   "U+A7A4","U+A7A6","U+A7A8","U+A7AA","U+A7AB","U+A7AC","U+A7AD","U+A7AE",
   "U+A7B0","U+A7B1","U+A7B2","U+A7B3","U+A7B4","U+A7B6","U+A7B8","U+A7BA",
   "U+A7BC","U+A7BE","U+A7C0","U+A7C2","U+A7C4","U+A7C5","U+A7C6","U+A7C7",
   "U+A7C9","U+A7CB","U+A7CC","U+A7CE","U+A7D0","U+A7D2","U+A7D4","U+A7D6",
   "U+A7D8","U+A7DA","U+A7DC","U+A7F5","U+FF21","U+FF22","U+FF23","U+FF24",
   "U+FF25","U+FF26","U+FF27","U+FF28","U+FF29","U+FF2A","U+FF2B","U+FF2C",
   "U+FF2D","U+FF2E","U+FF2F","U+FF30","U+FF31","U+FF32","U+FF33","U+FF34",
   "U+FF35","U+FF36","U+FF37","U+FF38","U+FF39","U+FF3A">>

LowerCase ==
  <<"a","b","c","d","e","f","g","h","i","j","k","l","m","n","o","p","q","r",
   "s","t","u","v","w","x","y","z","U+00E0","U+00E1","U+00E2","U+00E3",
   "U+00E4","U+00E5","U+00E6","U+00E7","U+00E8","U+00E9","U+00EA","U+00EB",
   "U+00EC","U+00ED","U+00EE","U+00EF","U+00F0","U+00F1","U+00F2","U+00F3",
   "U+00F4","U+00F5","U+00F6","U+00F8","U+00F9","U+00FA","U+00FB","U+00FC",
   "U+00FD","U+00FE","U+0101","U+0103","U+0105","U+0107","U+0109","U+010B",
   "U+010D","U+010F","U+0111","U+0113","U+0115","U+0117","U+0119","U+011B",
   "U+011D","U+011F","U+0121","U+0123","U+0125","U+0127","U+0129","U+012B",
   "U+012D","U+012F","U+0133","U+0135","U+0137","U+013A","U+013C","U+013E",
   "U+0140","U+0142","U+0144","U+0146","U+0148","U+014B","U+014D","U+014F",
   "U+0151","U+0153","U+0155","U+0157","U+0159","U+015B","U+015D","U+015F",
   "U+0161","U+0163","U+0165","U+0167","U+0169","U+016B","U+016D","U+016F",
   "U+0171","U+0173","U+0175","U+0177","U+00FF","U+017A","U+017C","U+017E",
   "U+0253","U+0183","U+0185","U+0254","U+0188","U+0256","U+0257","U+018C",
   "U+01DD","U+0259","U+025B","U+0192","U+0260","U+0263","U+0269","U+0268",
   "U+0199","U+026F","U+0272","U+0275","U+01A1","U+01A3","U+01A5","U+0280",
   "U+01A8","U+0283","U+01AD","U+0288","U+01B0","U+028A","U+028B","U+01B4",
   "U+01B6","U+0292","U+01B9","U+01BD","U+01C6","U+01C6","U+01C9","U+01C9",
   "U+01CC","U+01CC","U+01CE","U+01D0","U+01D2","U+01D4","U+01D6","U+01D8",
   "U+01DA","U+01DC","U+01DF","U+01E1","U+01E3","U+01E5","U+01E7","U+01E9",
   "U+01EB","U+01ED","U+01EF","U+01F3","U+01F3","U+01F5","U+0195","U+01BF",
   "U+01F9","U+01FB","U+01FD","U+01FF","U+0201","U+0203","U+0205","U+0207",
   "U+0209","U+020B","U+020D","U+020F","U+0211","U+0213","U+0215","U+0217",
   "U+0219","U+021B","U+021D","U+021F","U+019E","U+0223","U+0225","U+0227",
   "U+0229","U+022B","U+022D","U+022F","U+0231","U+0233","U+2C65","U+023C",
   "U+019A","U+2C66","U+0242","U+0180","U+0289","U+028C","U+0247","U+0249",
   "U+024B","U+024D","U+024F","U+0371","U+0373","U+0377","U+03F3","U+03AC",
   "U+03AD","U+03AE","U+03AF","U+03CC","U+03CD","U+03CE","U+03B1","U+03B2",
   "U+03B3","U+03B4","U+03B5","U+03B6","U+03B7","U+03B8","U+03B9","U+03BA",
   "U+03BB","U+03BC","U+03BD","U+03BE","U+03BF","U+03C0","U+03C1","U+03C3",
   "U+03C4","U+03C5","U+03C6","U+03C7","U+03C8","U+03C9","U+03CA","U+03CB",
   "U+03D7","U+03D9","U+03DB","U+03DD","U+03DF","U+03E1","U+03E3","U+03E5",
   "U+03E7","U+03E9","U+03EB","U+03ED","U+03EF","U+03B8","U+03F8","U+03F2",
   "U+03FB","U+037B","U+037C","U+037D","U+0450","U+0451","U+0452","U+0453",
   "U+0454","U+0455","U+0456","U+0457","U+0458","U+0459","U+045A","U+045B",
   "U+045C","U+045D","U+045E","U+045F","U+0430","U+0431","U+0432","U+0433",
   "U+0434","U+0435","U+0436","U+0437","U+0438","U+0439","U+043A","U+043B",
   "U+043C","U+043D","U+043E","U+043F","U+0440","U+0441","U+0442","U+0443",
   "U+0444","U+0445","U+0446","U+0447","U+0448","U+0449","U+044A","U+044B",
   "U+044C","U+044D","U+044E","U+044F","U+0461","U+0463","U+0465","U+0467",
   "U+0469","U+046B","U+046D","U+046F","U+0471","U+0473","U+0475","U+0477",
   "U+0479","U+047B","U+047D","U+047F","U+0481","U+048B","U+048D","U+048F",
   "U+0491","U+0493","U+0495","U+0497","U+0499","U+049B","U+049D","U+049F",
   "U+04A1","U+04A3","U+04A5","U+04A7","U+04A9","U+04AB","U+04AD","U+04AF",
   "U+04B1","U+04B3","U+04B5","U+04B7","U+04B9","U+04BB","U+04BD","U+04BF",
   "U+04CF","U+04C2","U+04C4","U+04C6","U+04C8","U+04CA","U+04CC","U+04CE",
   "U+04D1","U+04D3","U+04D5","U+04D7","U+04D9","U+04DB","U+04DD","U+04DF",
   "U+04E1","U+04E3","U+04E5","U+04E7","U+04E9","U+04EB","U+04ED","U+04EF",
   "U+04F1","U+04F3","U+04F5","U+04F7","U+04F9","U+04FB","U+04FD","U+04FF",
   "U+0501","U+0503","U+0505","U+0507","U+0509","U+050B","U+050D","U+050F",
   "U+0511","U+0513","U+0515","U+0517","U+0519","U+051B","U+051D","U+051F",
   "U+0521","U+0523","U+0525","U+0527","U+0529","U+052B","U+052D","U+052F",
   "U+0561","U+0562","U+0563","U+0564","U+0565","U+0566","U+0567","U+0568",
   "U+0569","U+056A","U+056B","U+056C","U+056D","U+056E","U+056F","U+0570",
   "U+0571","U+0572","U+0573","U+0574","U+0575","U+0576","U+0577","U+0578",
   "U+0579","U+057A","U+057B","U+057C","U+057D","U+057E","U+057F","U+0580",
   "U+0581","U+0582","U+0583","U+0584","U+0585","U+0586","U+2D00","U+2D01",
   "U+2D02","U+2D03","U+2D04","U+2D05","U+2D06","U+2D07","U+2D08","U+2D09",
   "U+2D0A","U+2D0B","U+2D0C","U+2D0D","U+2D0E","U+2D0F","U+2D10","U+2D11",
   "U+2D12","U+2D13","U+2D14","U+2D15","U+2D16","U+2D17","U+2D18","U+2D19",
   "U+2D1A","U+2D1B","U+2D1C","U+2D1D","U+2D1E","U+2D1F","U+2D20","U+2D21",
   "U+2D22","U+2D23","U+2D24","U+2D25","U+2D27","U+2D2D","U+AB70","U+AB71",
   "U+AB72","U+AB73","U+AB74","U+AB75","U+AB76","U+AB77","U+AB78","U+AB79",
   "U+AB7A","U+AB7B","U+AB7C","U+AB7D","U+AB7E","U+AB7F","U+AB80","U+AB81",
   "U+AB82","U+AB83","U+AB84","U+AB85","U+AB86","U+AB87","U+AB88","U+AB89",
   "U+AB8A","U+AB8B","U+AB8C","U+AB8D","U+AB8E","U+AB8F","U+AB90","U+AB91",
   "U+AB92","U+AB93","U+AB94","U+AB95","U+AB96","U+AB97","U+AB98","U+AB99",
   "U+AB9A","U+AB9B","U+AB9C","U+AB9D","U+AB9E","U+AB9F","U+ABA0","U+ABA1",
   "U+ABA2","U+ABA3","U+ABA4","U+ABA5","U+ABA6","U+ABA7","U+ABA8","U+ABA9",
   "U+ABAA","U+ABAB","U+ABAC","U+ABAD","U+ABAE","U+ABAF","U+ABB0","U+ABB1",
   "U+ABB2","U+ABB3","U+ABB4","U+ABB5","U+ABB6","U+ABB7","U+ABB8","U+ABB9",
   "U+ABBA","U+ABBB","U+ABBC","U+ABBD","U+ABBE","U+ABBF","U+13F8","U+13F9",
   "U+13FA","U+13FB","U+13FC","U+13FD","U+1C8A","U+10D0","U+10D1","U+10D2",
   "U+10D3","U+10D4","U+10D5","U+10D6","U+10D7","U+10D8","U+10D9","U+10DA",
   "U+10DB","U+10DC","U+10DD","U+10DE","U+10DF","U+10E0","U+10E1","U+10E2",
   "U+10E3","U+10E4","U+10E5","U+10E6","U+10E7","U+10E8","U+10E9","U+10EA",
   "U+10EB","U+10EC","U+10ED","U+10EE","U+10EF","U+10F0","U+10F1","U+10F2",
   "U+10F3","U+10F4","U+10F5","U+10F6","U+10F7","U+10F8","U+10F9","U+10FA",
   "U+10FD","U+10FE","U+10FF","U+1E01","U+1E03","U+1E05","U+1E07","U+1E09",
   "U+1E0B","U+1E0D","U+1E0F","U+1E11","U+1E13","U+1E15","U+1E17","U+1E19",
   "U+1E1B","U+1E1D","U+1E1F","U+1E21","U+1E23","U+1E25","U+1E27","U+1E29",
   "U+1E2B","U+1E2D","U+1E2F","U+1E31","U+1E33","U+1E35","U+1E37","U+1E39",
   "U+1E3B","U+1E3D","U+1E3F","U+1E41","U+1E43","U+1E45","U+1E47","U+1E49",
   "U+1E4B","U+1E4D","U+1E4F","U+1E51","U+1E53","U+1E55","U+1E57","U+1E59",
   "U+1E5B","U+1E5D","U+1E5F","U+1E61","U+1E63","U+1E65","U+1E67","U+1E69",
   "U+1E6B","U+1E6D","U+1E6F","U+1E71","U+1E73","U+1E75","U+1E77","U+1E79",
   "U+1E7B","U+1E7D","U+1E7F","U+1E81","U+1E83","U+1E85","U+1E87","U+1E89",
   "U+1E8B","U+1E8D","U+1E8F","U+1E91","U+1E93","U+1E95","U+00DF","U+1EA1",
   "U+1EA3","U+1EA5","U+1EA7","U+1EA9","U+1EAB","U+1EAD","U+1EAF","U+1EB1",
   "U+1EB3","U+1EB5","U+1EB7","U+1EB9","U+1EBB","U+1EBD","U+1EBF","U+1EC1",
   "U+1EC3","U+1EC5","U+1EC7","U+1EC9","U+1ECB","U+1ECD","U+1ECF","U+1ED1",
   "U+1ED3","U+1ED5","U+1ED7","U+1ED9","U+1EDB","U+1EDD","U+1EDF","U+1EE1",
   "U+1EE3","U+1EE5","U+1EE7","U+1EE9","U+1EEB","U+1EED","U+1EEF","U+1EF1",
   "U+1EF3","U+1EF5","U+1EF7","U+1EF9","U+1EFB","U+1EFD","U+1EFF","U+1F00",
   "U+1F01","U+1F02","U+1F03","U+1F04","U+1F05","U+1F06","U+1F07","U+1F10",
   "U+1F11","U+1F12","U+1F13","U+1F14","U+1F15","U+1F20","U+1F21","U+1F22",
   "U+1F23","U+1F24","U+1F25","U+1F26","U+1F27","U+1F30","U+1F31","U+1F32",
   "U+1F33","U+1F34","U+1F35","U+1F36","U+1F37","U+1F40","U+1F41","U+1F42",
   "U+1F43","U+1F44","U+1F45","U+1F51","U+1F53","U+1F55","U+1F57","U+1F60",
   "U+1F61","U+1F62","U+1F63","U+1F64","U+1F65","U+1F66","U+1F67","U+1F80",
   "U+1F81","U+1F82","U+1F83","U+1F84","U+1F85","U+1F86","U+1F87","U+1F90",
   "U+1F91","U+1F92","U+1F93","U+1F94","U+1F95","U+1F96","U+1F97","U+1FA0",
   "U+1FA1","U+1FA2","U+1FA3","U+1FA4","U+1FA5","U+1FA6","U+1FA7","U+1FB0",
   "U+1FB1","U+1F70","U+1F71","U+1FB3","U+1F72","U+1F73","U+1F74","U+1F75",
   "U+1FC3","U+1FD0","U+1FD1","U+1F76","U+1F77","U+1FE0","U+1FE1","U+1F7A",
   "U+1F7B","U+1FE5","U+1F78","U+1F79","U+1F7C","U+1F7D","U+1FF3","U+03C9",
   "k","U+00E5","U+214E","U+2170","U+2171","U+2172","U+2173","U+2174",
   "U+2175","U+2176","U+2177","U+2178","U+2179","U+217A","U+217B","U+217C",
   "U+217D","U+217E","U+217F","U+2184","U+24D0","U+24D1","U+24D2","U+24D3",
   "U+24D4","U+24D5","U+24D6","U+24D7","U+24D8","U+24D9","U+24DA","U+24DB",
   "U+24DC","U+24DD","U+24DE","U+24DF","U+24E0","U+24E1","U+24E2","U+24E3",
   "U+24E4","U+24E5","U+24E6","U+24E7","U+24E8","U+24E9","U+2C30","U+2C31",
   "U+2C32","U+2C33","U+2C34","U+2C35","U+2C36","U+2C37","U+2C38","U+2C39",
   "U+2C3A","U+2C3B","U+2C3C","U+2C3D","U+2C3E","U+2C3F","U+2C40","U+2C41",
   "U+2C42","U+2C43","U+2C44","U+2C45","U+2C46","U+2C47","U+2C48","U+2C49",
   "U+2C4A","U+2C4B","U+2C4C","U+2C4D","U+2C4E","U+2C4F","U+2C50","U+2C51",
   "U+2C52","U+2C53","U+2C54","U+2C55","U+2C56","U+2C57","U+2C58","U+2C59",
   "U+2C5A","U+2C5B","U+2C5C","U+2C5D","U+2C5E","U+2C5F","U+2C61","U+026B",
   "U+1D7D","U+027D","U+2C68","U+2C6A","U+2C6C","U+0251","U+0271","U+0250",
   "U+0252","U+2C73","U+2C76","U+023F","U+0240","U+2C81","U+2C83","U+2C85",
   "U+2C87","U+2C89","U+2C8B","U+2C8D","U+2C8F","U+2C91","U+2C93","U+2C95",
   "U+2C97","U+2C99","U+2C9B","U+2C9D","U+2C9F","U+2CA1","U+2CA3","U+2CA5",
   "U+2CA7","U+2CA9","U+2CAB","U+2CAD","U+2CAF","U+2CB1","U+2CB3","U+2CB5",
   "U+2CB7","U+2CB9","U+2CBB","U+2CBD","U+2CBF","U+2CC1","U+2CC3","U+2CC5",
   "U+2CC7","U+2CC9","U+2CCB","U+2CCD","U+2CCF","U+2CD1","U+2CD3","U+2CD5",
   "U+2CD7","U+2CD9","U+2CDB","U+2CDD","U+2CDF","U+2CE1","U+2CE3","U+2CEC",
   "U+2CEE","U+2CF3","U+A641","U+A643","U+A645","U+A647","U+A649","U+A64B",
   "U+A64D","U+A64F","U+A651","U+A653","U+A655","U+A657","U+A659","U+A65B",
   "U+A65D","U+A65F","U+A661","U+A663","U+A665","U+A667","U+A669","U+A66B",
   "U+A66D","U+A681","U+A683","U+A685","U+A687","U+A689","U+A68B","U+A68D",
   "U+A68F","U+A691","U+A693","U+A695","U+A697","U+A699","U+A69B","U+A723",
   "U+A725","U+A727","U+A729","U+A72B","U+A72D","U+A72F","U+A733","U+A735",
   "U+A737","U+A739","U+A73B","U+A73D","U+A73F","U+A741","U+A743","U+A745",
   "U+A747","U+A749","U+A74B","U+A74D","U+A74F","U+A751","U+A753","U+A755",
   "U+A757","U+A759","U+A75B","U+A75D","U+A75F","U+A761","U+A763","U+A765",
   "U+A767","U+A769","U+A76B","U+A76D","U+A76F","U+A77A","U+A77C","U+1D79",
   "U+A77F","U+A781","U+A783","U+A785","U+A787","U+A78C","U+0265","U+A791",
   "U+A793","U+A797","U+A799","U+A79B","U+A79D","U+A79F","U+A7A1","U+A7A3",
   "U+A7A5","U+A7A7","U+A7A9","U+0266","U+025C","U+0261","U+026C","U+026A",
   "U+029E","U+0287","U+029D","U+AB53","U+A7B5","U+A7B7","U+A7B9","U+A7BB",
   "U+A7BD","U+A7BF","U+A7C1","U+A7C3","U+A794","U+0282","U+1D8E","U+A7C8",
   "U+A7CA","U+0264","U+A7CD","U+A7CF","U+A7D1","U+A7D3","U+A7D5","U+A7D7",
   "U+A7D9","U+A7DB","U+019B","U+A7F6","U+FF41","U+FF42","U+FF43","U+FF44",
   "U+FF45","U+FF46","U+FF47","U+FF48","U+FF49","U+FF4A","U+FF4B","U+FF4C",
   "U+FF4D","U+FF4E","U+FF4F","U+FF50","U+FF51","U+FF52","U+FF53","U+FF54",
   "U+FF55","U+FF56","U+FF57","U+FF58","U+FF59","U+FF5A">>

\* the surrogate pairs with a lower case, and that lower case
UpperPairs ==
  <<<<"U+D801","U+DC00">>,<<"U+D801","U+DC01">>,<<"U+D801","U+DC02">>,
   <<"U+D801","U+DC03">>,<<"U+D801","U+DC04">>,<<"U+D801","U+DC05">>,
   <<"U+D801","U+DC06">>,<<"U+D801","U+DC07">>,<<"U+D801","U+DC08">>,
   <<"U+D801","U+DC09">>,<<"U+D801","U+DC0A">>,<<"U+D801","U+DC0B">>,
   <<"U+D801","U+DC0C">>,<<"U+D801","U+DC0D">>,<<"U+D801","U+DC0E">>,
   <<"U+D801","U+DC0F">>,<<"U+D801","U+DC10">>,<<"U+D801","U+DC11">>,
   <<"U+D801","U+DC12">>,<<"U+D801","U+DC13">>,<<"U+D801","U+DC14">>,
   <<"U+D801","U+DC15">>,<<"U+D801","U+DC16">>,<<"U+D801","U+DC17">>,
   <<"U+D801","U+DC18">>,<<"U+D801","U+DC19">>,<<"U+D801","U+DC1A">>,
   <<"U+D801","U+DC1B">>,<<"U+D801","U+DC1C">>,<<"U+D801","U+DC1D">>,
   <<"U+D801","U+DC1E">>,<<"U+D801","U+DC1F">>,<<"U+D801","U+DC20">>,
   <<"U+D801","U+DC21">>,<<"U+D801","U+DC22">>,<<"U+D801","U+DC23">>,
   <<"U+D801","U+DC24">>,<<"U+D801","U+DC25">>,<<"U+D801","U+DC26">>,
   <<"U+D801","U+DC27">>,<<"U+D801","U+DCB0">>,<<"U+D801","U+DCB1">>,
   <<"U+D801","U+DCB2">>,<<"U+D801","U+DCB3">>,<<"U+D801","U+DCB4">>,
   <<"U+D801","U+DCB5">>,<<"U+D801","U+DCB6">>,<<"U+D801","U+DCB7">>,
   <<"U+D801","U+DCB8">>,<<"U+D801","U+DCB9">>,<<"U+D801","U+DCBA">>,
   <<"U+D801","U+DCBB">>,<<"U+D801","U+DCBC">>,<<"U+D801","U+DCBD">>,
   <<"U+D801","U+DCBE">>,<<"U+D801","U+DCBF">>,<<"U+D801","U+DCC0">>,
   <<"U+D801","U+DCC1">>,<<"U+D801","U+DCC2">>,<<"U+D801","U+DCC3">>,
   <<"U+D801","U+DCC4">>,<<"U+D801","U+DCC5">>,<<"U+D801","U+DCC6">>,
   <<"U+D801","U+DCC7">>,<<"U+D801","U+DCC8">>,<<"U+D801","U+DCC9">>,
   <<"U+D801","U+DCCA">>,<<"U+D801","U+DCCB">>,<<"U+D801","U+DCCC">>,
   <<"U+D801","U+DCCD">>,<<"U+D801","U+DCCE">>,<<"U+D801","U+DCCF">>,
   <<"U+D801","U+DCD0">>,<<"U+D801","U+DCD1">>,<<"U+D801","U+DCD2">>,
   <<"U+D801","U+DCD3">>,<<"U+D801","U+DD70">>,<<"U+D801","U+DD71">>,
   <<"U+D801","U+DD72">>,<<"U+D801","U+DD73">>,<<"U+D801","U+DD74">>,
   <<"U+D801","U+DD75">>,<<"U+D801","U+DD76">>,<<"U+D801","U+DD77">>,
   <<"U+D801","U+DD78">>,<<"U+D801","U+DD79">>,<<"U+D801","U+DD7A">>,
   <<"U+D801","U+DD7C">>,<<"U+D801","U+DD7D">>,<<"U+D801","U+DD7E">>,
   <<"U+D801","U+DD7F">>,<<"U+D801","U+DD80">>,<<"U+D801","U+DD81">>,
   <<"U+D801","U+DD82">>,<<"U+D801","U+DD83">>,<<"U+D801","U+DD84">>,
   <<"U+D801","U+DD85">>,<<"U+D801","U+DD86">>,<<"U+D801","U+DD87">>,
   <<"U+D801","U+DD88">>,<<"U+D801","U+DD89">>,<<"U+D801","U+DD8A">>,
   <<"U+D801","U+DD8C">>,<<"U+D801","U+DD8D">>,<<"U+D801","U+DD8E">>,
   <<"U+D801","U+DD8F">>,<<"U+D801","U+DD90">>,<<"U+D801","U+DD91">>,
   <<"U+D801","U+DD92">>,<<"U+D801","U+DD94">>,<<"U+D801","U+DD95">>,
   <<"U+D803","U+DC80">>,<<"U+D803","U+DC81">>,<<"U+D803","U+DC82">>,
   <<"U+D803","U+DC83">>,<<"U+D803","U+DC84">>,<<"U+D803","U+DC85">>,
   <<"U+D803","U+DC86">>,<<"U+D803","U+DC87">>,<<"U+D803","U+DC88">>,
   <<"U+D803","U+DC89">>,<<"U+D803","U+DC8A">>,<<"U+D803","U+DC8B">>,
   <<"U+D803","U+DC8C">>,<<"U+D803","U+DC8D">>,<<"U+D803","U+DC8E">>,
   <<"U+D803","U+DC8F">>,<<"U+D803","U+DC90">>,<<"U+D803","U+DC91">>,
   <<"U+D803","U+DC92">>,<<"U+D803","U+DC93">>,<<"U+D803","U+DC94">>,
   <<"U+D803","U+DC95">>,<<"U+D803","U+DC96">>,<<"U+D803","U+DC97">>,
   <<"U+D803","U+DC98">>,<<"U+D803","U+DC99">>,<<"U+D803","U+DC9A">>,
   <<"U+D803","U+DC9B">>,<<"U+D803","U+DC9C">>,<<"U+D803","U+DC9D">>,
   <<"U+D803","U+DC9E">>,<<"U+D803","U+DC9F">>,<<"U+D803","U+DCA0">>,
   <<"U+D803","U+DCA1">>,<<"U+D803","U+DCA2">>,<<"U+D803","U+DCA3">>,
   <<"U+D803","U+DCA4">>,<<"U+D803","U+DCA5">>,<<"U+D803","U+DCA6">>,
   <<"U+D803","U+DCA7">>,<<"U+D803","U+DCA8">>,<<"U+D803","U+DCA9">>,
   <<"U+D803","U+DCAA">>,<<"U+D803","U+DCAB">>,<<"U+D803","U+DCAC">>,
   <<"U+D803","U+DCAD">>,<<"U+D803","U+DCAE">>,<<"U+D803","U+DCAF">>,
   <<"U+D803","U+DCB0">>,<<"U+D803","U+DCB1">>,<<"U+D803","U+DCB2">>,
   <<"U+D803","U+DD50">>,<<"U+D803","U+DD51">>,<<"U+D803","U+DD52">>,
   <<"U+D803","U+DD53">>,<<"U+D803","U+DD54">>,<<"U+D803","U+DD55">>,
   <<"U+D803","U+DD56">>,<<"U+D803","U+DD57">>,<<"U+D803","U+DD58">>,
   <<"U+D803","U+DD59">>,<<"U+D803","U+DD5A">>,<<"U+D803","U+DD5B">>,
   <<"U+D803","U+DD5C">>,<<"U+D803","U+DD5D">>,<<"U+D803","U+DD5E">>,
   <<"U+D803","U+DD5F">>,<<"U+D803","U+DD60">>,<<"U+D803","U+DD61">>,
   <<"U+D803","U+DD62">>,<<"U+D803","U+DD63">>,<<"U+D803","U+DD64">>,
   <<"U+D803","U+DD65">>,<<"U+D806","U+DCA0">>,<<"U+D806","U+DCA1">>,
   <<"U+D806","U+DCA2">>,<<"U+D806","U+DCA3">>,<<"U+D806","U+DCA4">>,
   <<"U+D806","U+DCA5">>,<<"U+D806","U+DCA6">>,<<"U+D806","U+DCA7">>,
   <<"U+D806","U+DCA8">>,<<"U+D806","U+DCA9">>,<<"U+D806","U+DCAA">>,
   <<"U+D806","U+DCAB">>,<<"U+D806","U+DCAC">>,<<"U+D806","U+DCAD">>,
   <<"U+D806","U+DCAE">>,<<"U+D806","U+DCAF">>,<<"U+D806","U+DCB0">>,
   <<"U+D806","U+DCB1">>,<<"U+D806","U+DCB2">>,<<"U+D806","U+DCB3">>,
   <<"U+D806","U+DCB4">>,<<"U+D806","U+DCB5">>,<<"U+D806","U+DCB6">>,
   <<"U+D806","U+DCB7">>,<<"U+D806","U+DCB8">>,<<"U+D806","U+DCB9">>,
   <<"U+D806","U+DCBA">>,<<"U+D806","U+DCBB">>,<<"U+D806","U+DCBC">>,
   <<"U+D806","U+DCBD">>,<<"U+D806","U+DCBE">>,<<"U+D806","U+DCBF">>,
   <<"U+D81B","U+DE40">>,<<"U+D81B","U+DE41">>,<<"U+D81B","U+DE42">>,
   <<"U+D81B","U+DE43">>,<<"U+D81B","U+DE44">>,<<"U+D81B","U+DE45">>,
   <<"U+D81B","U+DE46">>,<<"U+D81B","U+DE47">>,<<"U+D81B","U+DE48">>,
   <<"U+D81B","U+DE49">>,<<"U+D81B","U+DE4A">>,<<"U+D81B","U+DE4B">>,
   <<"U+D81B","U+DE4C">>,<<"U+D81B","U+DE4D">>,<<"U+D81B","U+DE4E">>,
   <<"U+D81B","U+DE4F">>,<<"U+D81B","U+DE50">>,<<"U+D81B","U+DE51">>,
   <<"U+D81B","U+DE52">>,<<"U+D81B","U+DE53">>,<<"U+D81B","U+DE54">>,
   <<"U+D81B","U+DE55">>,<<"U+D81B","U+DE56">>,<<"U+D81B","U+DE57">>,
   <<"U+D81B","U+DE58">>,<<"U+D81B","U+DE59">>,<<"U+D81B","U+DE5A">>,
   <<"U+D81B","U+DE5B">>,<<"U+D81B","U+DE5C">>,<<"U+D81B","U+DE5D">>,
   <<"U+D81B","U+DE5E">>,<<"U+D81B","U+DE5F">>,<<"U+D81B","U+DEA0">>,
   <<"U+D81B","U+DEA1">>,<<"U+D81B","U+DEA2">>,<<"U+D81B","U+DEA3">>,
   <<"U+D81B","U+DEA4">>,<<"U+D81B","U+DEA5">>,<<"U+D81B","U+DEA6">>,
   <<"U+D81B","U+DEA7">>,<<"U+D81B","U+DEA8">>,<<"U+D81B","U+DEA9">>,
   <<"U+D81B","U+DEAA">>,<<"U+D81B","U+DEAB">>,<<"U+D81B","U+DEAC">>,
   <<"U+D81B","U+DEAD">>,<<"U+D81B","U+DEAE">>,<<"U+D81B","U+DEAF">>,
   <<"U+D81B","U+DEB0">>,<<"U+D81B","U+DEB1">>,<<"U+D81B","U+DEB2">>,
   <<"U+D81B","U+DEB3">>,<<"U+D81B","U+DEB4">>,<<"U+D81B","U+DEB5">>,
   <<"U+D81B","U+DEB6">>,<<"U+D81B","U+DEB7">>,<<"U+D81B","U+DEB8">>,
   <<"U+D83A","U+DD00">>,<<"U+D83A","U+DD01">>,<<"U+D83A","U+DD02">>,
   <<"U+D83A","U+DD03">>,<<"U+D83A","U+DD04">>,<<"U+D83A","U+DD05">>,
   <<"U+D83A","U+DD06">>,<<"U+D83A","U+DD07">>,<<"U+D83A","U+DD08">>,
   <<"U+D83A","U+DD09">>,<<"U+D83A","U+DD0A">>,<<"U+D83A","U+DD0B">>,
   <<"U+D83A","U+DD0C">>,<<"U+D83A","U+DD0D">>,<<"U+D83A","U+DD0E">>,
   <<"U+D83A","U+DD0F">>,<<"U+D83A","U+DD10">>,<<"U+D83A","U+DD11">>,
   <<"U+D83A","U+DD12">>,<<"U+D83A","U+DD13">>,<<"U+D83A","U+DD14">>,
   <<"U+D83A","U+DD15">>,<<"U+D83A","U+DD16">>,<<"U+D83A","U+DD17">>,
   <<"U+D83A","U+DD18">>,<<"U+D83A","U+DD19">>,<<"U+D83A","U+DD1A">>,
   <<"U+D83A","U+DD1B">>,<<"U+D83A","U+DD1C">>,<<"U+D83A","U+DD1D">>,
   <<"U+D83A","U+DD1E">>,<<"U+D83A","U+DD1F">>,<<"U+D83A","U+DD20">>,
   <<"U+D83A","U+DD21">>>>

LowerPairs ==
  <<<<"U+D801","U+DC28">>,<<"U+D801","U+DC29">>,<<"U+D801","U+DC2A">>,
   <<"U+D801","U+DC2B">>,<<"U+D801","U+DC2C">>,<<"U+D801","U+DC2D">>,
   <<"U+D801","U+DC2E">>,<<"U+D801","U+DC2F">>,<<"U+D801","U+DC30">>,
   <<"U+D801","U+DC31">>,<<"U+D801","U+DC32">>,<<"U+D801","U+DC33">>,
   <<"U+D801","U+DC34">>,<<"U+D801","U+DC35">>,<<"U+D801","U+DC36">>,
   <<"U+D801","U+DC37">>,<<"U+D801","U+DC38">>,<<"U+D801","U+DC39">>,
   <<"U+D801","U+DC3A">>,<<"U+D801","U+DC3B">>,<<"U+D801","U+DC3C">>,
   <<"U+D801","U+DC3D">>,<<"U+D801","U+DC3E">>,<<"U+D801","U+DC3F">>,
   <<"U+D801","U+DC40">>,<<"U+D801","U+DC41">>,<<"U+D801","U+DC42">>,
   <<"U+D801","U+DC43">>,<<"U+D801","U+DC44">>,<<"U+D801","U+DC45">>,
   <<"U+D801","U+DC46">>,<<"U+D801","U+DC47">>,<<"U+D801","U+DC48">>,
   <<"U+D801","U+DC49">>,<<"U+D801","U+DC4A">>,<<"U+D801","U+DC4B">>,
   <<"U+D801","U+DC4C">>,<<"U+D801","U+DC4D">>,<<"U+D801","U+DC4E">>,
   <<"U+D801","U+DC4F">>,<<"U+D801","U+DCD8">>,<<"U+D801","U+DCD9">>,
   <<"U+D801","U+DCDA">>,<<"U+D801","U+DCDB">>,<<"U+D801","U+DCDC">>,
   <<"U+D801","U+DCDD">>,<<"U+D801","U+DCDE">>,<<"U+D801","U+DCDF">>,
   <<"U+D801","U+DCE0">>,<<"U+D801","U+DCE1">>,<<"U+D801","U+DCE2">>,
   <<"U+D801","U+DCE3">>,<<"U+D801","U+DCE4">>,<<"U+D801","U+DCE5">>,
   <<"U+D801","U+DCE6">>,<<"U+D801","U+DCE7">>,<<"U+D801","U+DCE8">>,
   <<"U+D801","U+DCE9">>,<<"U+D801","U+DCEA">>,<<"U+D801","U+DCEB">>,
   <<"U+D801","U+DCEC">>,<<"U+D801","U+DCED">>,<<"U+D801","U+DCEE">>,
   <<"U+D801","U+DCEF">>,<<"U+D801","U+DCF0">>,<<"U+D801","U+DCF1">>,
   <<"U+D801","U+DCF2">>,<<"U+D801","U+DCF3">>,<<"U+D801","U+DCF4">>,
   <<"U+D801","U+DCF5">>,<<"U+D801","U+DCF6">>,<<"U+D801","U+DCF7">>,
   <<"U+D801","U+DCF8">>,<<"U+D801","U+DCF9">>,<<"U+D801","U+DCFA">>,
   <<"U+D801","U+DCFB">>,<<"U+D801","U+DD97">>,<<"U+D801","U+DD98">>,
   <<"U+D801","U+DD99">>,<<"U+D801","U+DD9A">>,<<"U+D801","U+DD9B">>,
   <<"U+D801","U+DD9C">>,<<"U+D801","U+DD9D">>,<<"U+D801","U+DD9E">>,
   <<"U+D801","U+DD9F">>,<<"U+D801","U+DDA0">>,<<"U+D801","U+DDA1">>,
   <<"U+D801","U+DDA3">>,<<"U+D801","U+DDA4">>,<<"U+D801","U+DDA5">>,
   <<"U+D801","U+DDA6">>,<<"U+D801","U+DDA7">>,<<"U+D801","U+DDA8">>,
   <<"U+D801","U+DDA9">>,<<"U+D801","U+DDAA">>,<<"U+D801","U+DDAB">>,
   <<"U+D801","U+DDAC">>,<<"U+D801","U+DDAD">>,<<"U+D801","U+DDAE">>,
   <<"U+D801","U+DDAF">>,<<"U+D801","U+DDB0">>,<<"U+D801","U+DDB1">>,
   <<"U+D801","U+DDB3">>,<<"U+D801","U+DDB4">>,<<"U+D801","U+DDB5">>,
   <<"U+D801","U+DDB6">>,<<"U+D801","U+DDB7">>,<<"U+D801","U+DDB8">>,
   <<"U+D801","U+DDB9">>,<<"U+D801","U+DDBB">>,<<"U+D801","U+DDBC">>,
   <<"U+D803","U+DCC0">>,<<"U+D803","U+DCC1">>,<<"U+D803","U+DCC2">>,
   <<"U+D803","U+DCC3">>,<<"U+D803","U+DCC4">>,<<"U+D803","U+DCC5">>,
   <<"U+D803","U+DCC6">>,<<"U+D803","U+DCC7">>,<<"U+D803","U+DCC8">>,
   <<"U+D803","U+DCC9">>,<<"U+D803","U+DCCA">>,<<"U+D803","U+DCCB">>,
   <<"U+D803","U+DCCC">>,<<"U+D803","U+DCCD">>,<<"U+D803","U+DCCE">>,
   <<"U+D803","U+DCCF">>,<<"U+D803","U+DCD0">>,<<"U+D803","U+DCD1">>,
   <<"U+D803","U+DCD2">>,<<"U+D803","U+DCD3">>,<<"U+D803","U+DCD4">>,
   <<"U+D803","U+DCD5">>,<<"U+D803","U+DCD6">>,<<"U+D803","U+DCD7">>,
   <<"U+D803","U+DCD8">>,<<"U+D803","U+DCD9">>,<<"U+D803","U+DCDA">>,
   <<"U+D803","U+DCDB">>,<<"U+D803","U+DCDC">>,<<"U+D803","U+DCDD">>,
   <<"U+D803","U+DCDE">>,<<"U+D803","U+DCDF">>,<<"U+D803","U+DCE0">>,
   <<"U+D803","U+DCE1">>,<<"U+D803","U+DCE2">>,<<"U+D803","U+DCE3">>,
   <<"U+D803","U+DCE4">>,<<"U+D803","U+DCE5">>,<<"U+D803","U+DCE6">>,
   <<"U+D803","U+DCE7">>,<<"U+D803","U+DCE8">>,<<"U+D803","U+DCE9">>,
   <<"U+D803","U+DCEA">>,<<"U+D803","U+DCEB">>,<<"U+D803","U+DCEC">>,
   <<"U+D803","U+DCED">>,<<"U+D803","U+DCEE">>,<<"U+D803","U+DCEF">>,
   <<"U+D803","U+DCF0">>,<<"U+D803","U+DCF1">>,<<"U+D803","U+DCF2">>,
   <<"U+D803","U+DD70">>,<<"U+D803","U+DD71">>,<<"U+D803","U+DD72">>,
   <<"U+D803","U+DD73">>,<<"U+D803","U+DD74">>,<<"U+D803","U+DD75">>,
   <<"U+D803","U+DD76">>,<<"U+D803","U+DD77">>,<<"U+D803","U+DD78">>,
   <<"U+D803","U+DD79">>,<<"U+D803","U+DD7A">>,<<"U+D803","U+DD7B">>,
   <<"U+D803","U+DD7C">>,<<"U+D803","U+DD7D">>,<<"U+D803","U+DD7E">>,
   <<"U+D803","U+DD7F">>,<<"U+D803","U+DD80">>,<<"U+D803","U+DD81">>,
   <<"U+D803","U+DD82">>,<<"U+D803","U+DD83">>,<<"U+D803","U+DD84">>,
   <<"U+D803","U+DD85">>,<<"U+D806","U+DCC0">>,<<"U+D806","U+DCC1">>,
   <<"U+D806","U+DCC2">>,<<"U+D806","U+DCC3">>,<<"U+D806","U+DCC4">>,
   <<"U+D806","U+DCC5">>,<<"U+D806","U+DCC6">>,<<"U+D806","U+DCC7">>,
   <<"U+D806","U+DCC8">>,<<"U+D806","U+DCC9">>,<<"U+D806","U+DCCA">>,
   <<"U+D806","U+DCCB">>,<<"U+D806","U+DCCC">>,<<"U+D806","U+DCCD">>,
   <<"U+D806","U+DCCE">>,<<"U+D806","U+DCCF">>,<<"U+D806","U+DCD0">>,
   <<"U+D806","U+DCD1">>,<<"U+D806","U+DCD2">>,<<"U+D806","U+DCD3">>,
   <<"U+D806","U+DCD4">>,<<"U+D806","U+DCD5">>,<<"U+D806","U+DCD6">>,
   <<"U+D806","U+DCD7">>,<<"U+D806","U+DCD8">>,<<"U+D806","U+DCD9">>,
   <<"U+D806","U+DCDA">>,<<"U+D806","U+DCDB">>,<<"U+D806","U+DCDC">>,
   <<"U+D806","U+DCDD">>,<<"U+D806","U+DCDE">>,<<"U+D806","U+DCDF">>,
   <<"U+D81B","U+DE60">>,<<"U+D81B","U+DE61">>,<<"U+D81B","U+DE62">>,
   <<"U+D81B","U+DE63">>,<<"U+D81B","U+DE64">>,<<"U+D81B","U+DE65">>,
   <<"U+D81B","U+DE66">>,<<"U+D81B","U+DE67">>,<<"U+D81B","U+DE68">>,
   <<"U+D81B","U+DE69">>,<<"U+D81B","U+DE6A">>,<<"U+D81B","U+DE6B">>,
   <<"U+D81B","U+DE6C">>,<<"U+D81B","U+DE6D">>,<<"U+D81B","U+DE6E">>,
   <<"U+D81B","U+DE6F">>,<<"U+D81B","U+DE70">>,<<"U+D81B","U+DE71">>,
   <<"U+D81B","U+DE72">>,<<"U+D81B","U+DE73">>,<<"U+D81B","U+DE74">>,
   <<"U+D81B","U+DE75">>,<<"U+D81B","U+DE76">>,<<"U+D81B","U+DE77">>,
   <<"U+D81B","U+DE78">>,<<"U+D81B","U+DE79">>,<<"U+D81B","U+DE7A">>,
   <<"U+D81B","U+DE7B">>,<<"U+D81B","U+DE7C">>,<<"U+D81B","U+DE7D">>,
   <<"U+D81B","U+DE7E">>,<<"U+D81B","U+DE7F">>,<<"U+D81B","U+DEBB">>,
   <<"U+D81B","U+DEBC">>,<<"U+D81B","U+DEBD">>,<<"U+D81B","U+DEBE">>,
   <<"U+D81B","U+DEBF">>,<<"U+D81B","U+DEC0">>,<<"U+D81B","U+DEC1">>,
   <<"U+D81B","U+DEC2">>,<<"U+D81B","U+DEC3">>,<<"U+D81B","U+DEC4">>,
   <<"U+D81B","U+DEC5">>,<<"U+D81B","U+DEC6">>,<<"U+D81B","U+DEC7">>,
   <<"U+D81B","U+DEC8">>,<<"U+D81B","U+DEC9">>,<<"U+D81B","U+DECA">>,
   <<"U+D81B","U+DECB">>,<<"U+D81B","U+DECC">>,<<"U+D81B","U+DECD">>,
   <<"U+D81B","U+DECE">>,<<"U+D81B","U+DECF">>,<<"U+D81B","U+DED0">>,
   <<"U+D81B","U+DED1">>,<<"U+D81B","U+DED2">>,<<"U+D81B","U+DED3">>,
   <<"U+D83A","U+DD22">>,<<"U+D83A","U+DD23">>,<<"U+D83A","U+DD24">>,
   <<"U+D83A","U+DD25">>,<<"U+D83A","U+DD26">>,<<"U+D83A","U+DD27">>,
   <<"U+D83A","U+DD28">>,<<"U+D83A","U+DD29">>,<<"U+D83A","U+DD2A">>,
   <<"U+D83A","U+DD2B">>,<<"U+D83A","U+DD2C">>,<<"U+D83A","U+DD2D">>,
   <<"U+D83A","U+DD2E">>,<<"U+D83A","U+DD2F">>,<<"U+D83A","U+DD30">>,
   <<"U+D83A","U+DD31">>,<<"U+D83A","U+DD32">>,<<"U+D83A","U+DD33">>,
   <<"U+D83A","U+DD34">>,<<"U+D83A","U+DD35">>,<<"U+D83A","U+DD36">>,
   <<"U+D83A","U+DD37">>,<<"U+D83A","U+DD38">>,<<"U+D83A","U+DD39">>,
   <<"U+D83A","U+DD3A">>,<<"U+D83A","U+DD3B">>,<<"U+D83A","U+DD3C">>,
   <<"U+D83A","U+DD3D">>,<<"U+D83A","U+DD3E">>,<<"U+D83A","U+DD3F">>,
   <<"U+D83A","U+DD40">>,<<"U+D83A","U+DD41">>,<<"U+D83A","U+DD42">>,
   <<"U+D83A","U+DD43">>>>

\* Case_Ignorable: what the Final_Sigma rule skips
IgnorableUnits ==
  {"'",".",":","^","U+0060","U+00A8","U+00AD","U+00AF","U+00B4","U+00B7",
   "U+00B8","U+02B0","U+02B1","U+02B2","U+02B3","U+02B4","U+02B5","U+02B6",
   "U+02B7","U+02B8","U+02B9","U+02BA","U+02BB","U+02BC","U+02BD","U+02BE",
   "U+02BF","U+02C0","U+02C1","U+02C2","U+02C3","U+02C4","U+02C5","U+02C6",
   "U+02C7","U+02C8","U+02C9","U+02CA","U+02CB","U+02CC","U+02CD","U+02CE",
   "U+02CF","U+02D0","U+02D1","U+02D2","U+02D3","U+02D4","U+02D5","U+02D6",
   "U+02D7","U+02D8","U+02D9","U+02DA","U+02DB","U+02DC","U+02DD","U+02DE",
   "U+02DF","U+02E0","U+02E1","U+02E2","U+02E3","U+02E4","U+02E5","U+02E6",
   "U+02E7","U+02E8","U+02E9","U+02EA","U+02EB","U+02EC","U+02ED","U+02EE",
   "U+02EF","U+02F0","U+02F1","U+02F2","U+02F3","U+02F4","U+02F5","U+02F6",
   "U+02F7","U+02F8","U+02F9","U+02FA","U+02FB","U+02FC","U+02FD","U+02FE",
   "U+02FF","U+0300","U+0301","U+0302","U+0303","U+0304","U+0305","U+0306",
   "U+0307","U+0308","U+0309","U+030A","U+030B","U+030C","U+030D","U+030E",
   "U+030F","U+0310","U+0311","U+0312","U+0313","U+0314","U+0315","U+0316",
   "U+0317","U+0318","U+0319","U+031A","U+031B","U+031C","U+031D","U+031E",
   "U+031F","U+0320","U+0321","U+0322","U+0323","U+0324","U+0325","U+0326",
   "U+0327","U+0328","U+0329","U+032A","U+032B","U+032C","U+032D","U+032E",
   "U+032F","U+0330","U+0331","U+0332","U+0333","U+0334","U+0335","U+0336",
   "U+0337","U+0338","U+0339","U+033A","U+033B","U+033C","U+033D","U+033E",
   "U+033F","U+0340","U+0341","U+0342","U+0343","U+0344","U+0345","U+0346",
   "U+0347","U+0348","U+0349","U+034A","U+034B","U+034C","U+034D","U+034E",
   "U+034F","U+0350","U+0351","U+0352","U+0353","U+0354","U+0355","U+0356",
   "U+0357","U+0358","U+0359","U+035A","U+035B","U+035C","U+035D","U+035E",
   "U+035F","U+0360","U+0361","U+0362","U+0363","U+0364","U+0365","U+0366",
   "U+0367","U+0368","U+0369","U+036A","U+036B","U+036C","U+036D","U+036E",
   "U+036F","U+0374","U+0375","U+037A","U+0384","U+0385","U+0387","U+0483",
   "U+0484","U+0485","U+0486","U+0487","U+0488","U+0489","U+0559","U+055F",
   "U+0591","U+0592","U+0593","U+0594","U+0595","U+0596","U+0597","U+0598",
   "U+0599","U+059A","U+059B","U+059C","U+059D","U+059E","U+059F","U+05A0",
   "U+05A1","U+05A2","U+05A3","U+05A4","U+05A5","U+05A6","U+05A7","U+05A8",
   "U+05A9","U+05AA","U+05AB","U+05AC","U+05AD","U+05AE","U+05AF","U+05B0",
   "U+05B1","U+05B2","U+05B3","U+05B4","U+05B5","U+05B6","U+05B7","U+05B8",
   "U+05B9","U+05BA","U+05BB","U+05BC","U+05BD","U+05BF","U+05C1","U+05C2",
   "U+05C4","U+05C5","U+05C7","U+05F4","U+0600","U+0601","U+0602","U+0603",
   "U+0604","U+0605","U+0610","U+0611","U+0612","U+0613","U+0614","U+0615",
   "U+0616","U+0617","U+0618","U+0619","U+061A","U+061C","U+0640","U+064B",
   "U+064C","U+064D","U+064E","U+064F","U+0650","U+0651","U+0652","U+0653",
   "U+0654","U+0655","U+0656","U+0657","U+0658","U+0659","U+065A","U+065B",
   "U+065C","U+065D","U+065E","U+065F","U+0670","U+06D6","U+06D7","U+06D8",
   "U+06D9","U+06DA","U+06DB","U+06DC","U+06DD","U+06DF","U+06E0","U+06E1",
   "U+06E2","U+06E3","U+06E4","U+06E5","U+06E6","U+06E7","U+06E8","U+06EA",
   "U+06EB","U+06EC","U+06ED","U+070F","U+0711","U+0730","U+0731","U+0732",
   "U+0733","U+0734","U+0735","U+0736","U+0737","U+0738","U+0739","U+073A",
   "U+073B","U+073C","U+073D","U+073E","U+073F","U+0740","U+0741","U+0742",
   "U+0743","U+0744","U+0745","U+0746","U+0747","U+0748","U+0749","U+074A",
   "U+07A6","U+07A7","U+07A8","U+07A9","U+07AA","U+07AB","U+07AC","U+07AD",
   "U+07AE","U+07AF","U+07B0","U+07EB","U+07EC","U+07ED","U+07EE","U+07EF",
   "U+07F0","U+07F1","U+07F2","U+07F3","U+07F4","U+07F5","U+07FA","U+07FD",
   "U+0816","U+0817","U+0818","U+0819","U+081A","U+081B","U+081C","U+081D",
   "U+081E","U+081F","U+0820","U+0821","U+0822","U+0823","U+0824","U+0825",
   "U+0826","U+0827","U+0828","U+0829","U+082A","U+082B","U+082C","U+082D",
   "U+0859","U+085A","U+085B","U+0888","U+0890","U+0891","U+0897","U+0898",
   "U+0899","U+089A","U+089B","U+089C","U+089D","U+089E","U+089F","U+08C9",
   "U+08CA","U+08CB","U+08CC","U+08CD","U+08CE","U+08CF","U+08D0","U+08D1",
   "U+08D2","U+08D3","U+08D4","U+08D5","U+08D6","U+08D7","U+08D8","U+08D9",
   "U+08DA","U+08DB","U+08DC","U+08DD","U+08DE","U+08DF","U+08E0","U+08E1",
   "U+08E2","U+08E3","U+08E4","U+08E5","U+08E6","U+08E7","U+08E8","U+08E9",
   "U+08EA","U+08EB","U+08EC","U+08ED","U+08EE","U+08EF","U+08F0","U+08F1",
   "U+08F2","U+08F3","U+08F4","U+08F5","U+08F6","U+08F7","U+08F8","U+08F9",
   "U+08FA","U+08FB","U+08FC","U+08FD","U+08FE","U+08FF","U+0900","U+0901",
   "U+0902","U+093A","U+093C","U+0941","U+0942","U+0943","U+0944","U+0945",
   "U+0946","U+0947","U+0948","U+094D","U+0951","U+0952","U+0953","U+0954",
   "U+0955","U+0956","U+0957","U+0962","U+0963","U+0971","U+0981","U+09BC",
   "U+09C1","U+09C2","U+09C3","U+09C4","U+09CD","U+09E2","U+09E3","U+09FE",
   "U+0A01","U+0A02","U+0A3C","U+0A41","U+0A42","U+0A47","U+0A48","U+0A4B",
   "U+0A4C","U+0A4D","U+0A51","U+0A70","U+0A71","U+0A75","U+0A81","U+0A82",
   "U+0ABC","U+0AC1","U+0AC2","U+0AC3","U+0AC4","U+0AC5","U+0AC7","U+0AC8",
   "U+0ACD","U+0AE2","U+0AE3","U+0AFA","U+0AFB","U+0AFC","U+0AFD","U+0AFE",
   "U+0AFF","U+0B01","U+0B3C","U+0B3F","U+0B41","U+0B42","U+0B43","U+0B44",
   "U+0B4D","U+0B55","U+0B56","U+0B62","U+0B63","U+0B82","U+0BC0","U+0BCD",
   "U+0C00","U+0C04","U+0C3C","U+0C3E","U+0C3F","U+0C40","U+0C46","U+0C47",
   "U+0C48","U+0C4A","U+0C4B","U+0C4C","U+0C4D","U+0C55","U+0C56","U+0C62",
   "U+0C63","U+0C81","U+0CBC","U+0CBF","U+0CC6","U+0CCC","U+0CCD","U+0CE2",
   "U+0CE3","U+0D00","U+0D01","U+0D3B","U+0D3C","U+0D41","U+0D42","U+0D43",
   "U+0D44","U+0D4D","U+0D62","U+0D63","U+0D81","U+0DCA","U+0DD2","U+0DD3",
   "U+0DD4","U+0DD6","U+0E31","U+0E34","U+0E35","U+0E36","U+0E37","U+0E38",
   "U+0E39","U+0E3A","U+0E46","U+0E47","U+0E48","U+0E49","U+0E4A","U+0E4B",
   "U+0E4C","U+0E4D","U+0E4E","U+0EB1","U+0EB4","U+0EB5","U+0EB6","U+0EB7",
   "U+0EB8","U+0EB9","U+0EBA","U+0EBB","U+0EBC","U+0EC6","U+0EC8","U+0EC9",
   "U+0ECA","U+0ECB","U+0ECC","U+0ECD","U+0ECE","U+0F18","U+0F19","U+0F35",
   "U+0F37","U+0F39","U+0F71","U+0F72","U+0F73","U+0F74","U+0F75","U+0F76",
   "U+0F77","U+0F78","U+0F79","U+0F7A","U+0F7B","U+0F7C","U+0F7D","U+0F7E",
   "U+0F80","U+0F81","U+0F82","U+0F83","U+0F84","U+0F86","U+0F87","U+0F8D",
   "U+0F8E","U+0F8F","U+0F90","U+0F91","U+0F92","U+0F93","U+0F94","U+0F95",
   "U+0F96","U+0F97","U+0F99","U+0F9A","U+0F9B","U+0F9C","U+0F9D","U+0F9E",
   "U+0F9F","U+0FA0","U+0FA1","U+0FA2","U+0FA3","U+0FA4","U+0FA5","U+0FA6",
   "U+0FA7","U+0FA8","U+0FA9","U+0FAA","U+0FAB","U+0FAC","U+0FAD","U+0FAE",
   "U+0FAF","U+0FB0","U+0FB1","U+0FB2","U+0FB3","U+0FB4","U+0FB5","U+0FB6",
   "U+0FB7","U+0FB8","U+0FB9","U+0FBA","U+0FBB","U+0FBC","U+0FC6","U+102D",
   "U+102E","U+102F","U+1030","U+1032","U+1033","U+1034","U+1035","U+1036",
   "U+1037","U+1039","U+103A","U+103D","U+103E","U+1058","U+1059","U+105E",
   "U+105F","U+1060","U+1071","U+1072","U+1073","U+1074","U+1082","U+1085",
   "U+1086","U+108D","U+109D","U+10FC","U+135D","U+135E","U+135F","U+1712",
   "U+1713","U+1714","U+1732","U+1733","U+1752","U+1753","U+1772","U+1773",
   "U+17B4","U+17B5","U+17B7","U+17B8","U+17B9","U+17BA","U+17BB","U+17BC",
   "U+17BD","U+17C6","U+17C9","U+17CA","U+17CB","U+17CC","U+17CD","U+17CE",
   "U+17CF","U+17D0","U+17D1","U+17D2","U+17D3","U+17D7","U+17DD","U+180B",
   "U+180C","U+180D","U+180E","U+180F","U+1843","U+1885","U+1886","U+18A9",
   "U+1920","U+1921","U+1922","U+1927","U+1928","U+1932","U+1939","U+193A",
   "U+193B","U+1A17","U+1A18","U+1A1B","U+1A56","U+1A58","U+1A59","U+1A5A",
   "U+1A5B","U+1A5C","U+1A5D","U+1A5E","U+1A60","U+1A62","U+1A65","U+1A66",
   "U+1A67","U+1A68","U+1A69","U+1A6A","U+1A6B","U+1A6C","U+1A73","U+1A74",
   "U+1A75","U+1A76","U+1A77","U+1A78","U+1A79","U+1A7A","U+1A7B","U+1A7C",
   "U+1A7F","U+1AA7","U+1AB0","U+1AB1","U+1AB2","U+1AB3","U+1AB4","U+1AB5",
   "U+1AB6","U+1AB7","U+1AB8","U+1AB9","U+1ABA","U+1ABB","U+1ABC","U+1ABD",
   "U+1ABE","U+1ABF","U+1AC0","U+1AC1","U+1AC2","U+1AC3","U+1AC4","U+1AC5",
   "U+1AC6","U+1AC7","U+1AC8","U+1AC9","U+1ACA","U+1ACB","U+1ACC","U+1ACD",
   "U+1ACE","U+1ACF","U+1AD0","U+1AD1","U+1AD2","U+1AD3","U+1AD4","U+1AD5",
   "U+1AD6","U+1AD7","U+1AD8","U+1AD9","U+1ADA","U+1ADB","U+1ADC","U+1ADD",
   "U+1AE0","U+1AE1","U+1AE2","U+1AE3","U+1AE4","U+1AE5","U+1AE6","U+1AE7",
   "U+1AE8","U+1AE9","U+1AEA","U+1AEB","U+1B00","U+1B01","U+1B02","U+1B03",
   "U+1B34","U+1B36","U+1B37","U+1B38","U+1B39","U+1B3A","U+1B3C","U+1B42",
   "U+1B6B","U+1B6C","U+1B6D","U+1B6E","U+1B6F","U+1B70","U+1B71","U+1B72",
   "U+1B73","U+1B80","U+1B81","U+1BA2","U+1BA3","U+1BA4","U+1BA5","U+1BA8",
   "U+1BA9","U+1BAB","U+1BAC","U+1BAD","U+1BE6","U+1BE8","U+1BE9","U+1BED",
   "U+1BEF","U+1BF0","U+1BF1","U+1C2C","U+1C2D","U+1C2E","U+1C2F","U+1C30",
   "U+1C31","U+1C32","U+1C33","U+1C36","U+1C37","U+1C78","U+1C79","U+1C7A",
   "U+1C7B","U+1C7C","U+1C7D","U+1CD0","U+1CD1","U+1CD2","U+1CD4","U+1CD5",
   "U+1CD6","U+1CD7","U+1CD8","U+1CD9","U+1CDA","U+1CDB","U+1CDC","U+1CDD",
   "U+1CDE","U+1CDF","U+1CE0","U+1CE2","U+1CE3","U+1CE4","U+1CE5","U+1CE6",
   "U+1CE7","U+1CE8","U+1CED","U+1CF4","U+1CF8","U+1CF9","U+1D2C","U+1D2D",
   "U+1D2E","U+1D2F","U+1D30","U+1D31","U+1D32","U+1D33","U+1D34","U+1D35",
   "U+1D36","U+1D37","U+1D38","U+1D39","U+1D3A","U+1D3B","U+1D3C","U+1D3D",
   "U+1D3E","U+1D3F","U+1D40","U+1D41","U+1D42","U+1D43","U+1D44","U+1D45",
   "U+1D46","U+1D47","U+1D48","U+1D49","U+1D4A","U+1D4B","U+1D4C","U+1D4D",
   "U+1D4E","U+1D4F","U+1D50","U+1D51","U+1D52","U+1D53","U+1D54","U+1D55",
   "U+1D56","U+1D57","U+1D58","U+1D59","U+1D5A","U+1D5B","U+1D5C","U+1D5D",
   "U+1D5E","U+1D5F","U+1D60","U+1D61","U+1D62","U+1D63","U+1D64","U+1D65",
   "U+1D66","U+1D67","U+1D68","U+1D69","U+1D6A","U+1D78","U+1D9B","U+1D9C",
   "U+1D9D","U+1D9E","U+1D9F","U+1DA0","U+1DA1","U+1DA2","U+1DA3","U+1DA4",
   "U+1DA5","U+1DA6","U+1DA7","U+1DA8","U+1DA9","U+1DAA","U+1DAB","U+1DAC",
   "U+1DAD","U+1DAE","U+1DAF","U+1DB0","U+1DB1","U+1DB2","U+1DB3","U+1DB4",
   "U+1DB5","U+1DB6","U+1DB7","U+1DB8","U+1DB9","U+1DBA","U+1DBB","U+1DBC",
   "U+1DBD","U+1DBE","U+1DBF","U+1DC0","U+1DC1","U+1DC2","U+1DC3","U+1DC4",
   "U+1DC5","U+1DC6","U+1DC7","U+1DC8","U+1DC9","U+1DCA","U+1DCB","U+1DCC",
   "U+1DCD","U+1DCE","U+1DCF","U+1DD0","U+1DD1","U+1DD2","U+1DD3","U+1DD4",
   "U+1DD5","U+1DD6","U+1DD7","U+1DD8","U+1DD9","U+1DDA","U+1DDB","U+1DDC",
   "U+1DDD","U+1DDE","U+1DDF","U+1DE0","U+1DE1","U+1DE2","U+1DE3","U+1DE4",
   "U+1DE5","U+1DE6","U+1DE7","U+1DE8","U+1DE9","U+1DEA","U+1DEB","U+1DEC",
   "U+1DED","U+1DEE","U+1DEF","U+1DF0","U+1DF1","U+1DF2","U+1DF3","U+1DF4",
   "U+1DF5","U+1DF6","U+1DF7","U+1DF8","U+1DF9","U+1DFA","U+1DFB","U+1DFC",
   "U+1DFD","U+1DFE","U+1DFF","U+1FBD","U+1FBF","U+1FC0","U+1FC1","U+1FCD",
   "U+1FCE","U+1FCF","U+1FDD","U+1FDE","U+1FDF","U+1FED","U+1FEE","U+1FEF",
   "U+1FFD","U+1FFE","U+200B","U+200C","U+200D","U+200E","U+200F","U+2018",
   "U+2019","U+2024","U+2027","U+202A","U+202B","U+202C","U+202D","U+202E",
   "U+2060","U+2061","U+2062","U+2063","U+2064","U+2066","U+2067","U+2068",
   "U+2069","U+206A","U+206B","U+206C","U+206D","U+206E","U+206F","U+2071",
   "U+207F","U+2090","U+2091","U+2092","U+2093","U+2094","U+2095","U+2096",
   "U+2097","U+2098","U+2099","U+209A","U+209B","U+209C","U+20D0","U+20D1",
   "U+20D2","U+20D3","U+20D4","U+20D5","U+20D6","U+20D7","U+20D8","U+20D9",
   "U+20DA","U+20DB","U+20DC","U+20DD","U+20DE","U+20DF","U+20E0","U+20E1",
   "U+20E2","U+20E3","U+20E4","U+20E5","U+20E6","U+20E7","U+20E8","U+20E9",
   "U+20EA","U+20EB","U+20EC","U+20ED","U+20EE","U+20EF","U+20F0","U+2C7C",
   "U+2C7D","U+2CEF","U+2CF0","U+2CF1","U+2D6F","U+2D7F","U+2DE0","U+2DE1",
   "U+2DE2","U+2DE3","U+2DE4","U+2DE5","U+2DE6","U+2DE7","U+2DE8","U+2DE9",
   "U+2DEA","U+2DEB","U+2DEC","U+2DED","U+2DEE","U+2DEF","U+2DF0","U+2DF1",
   "U+2DF2","U+2DF3","U+2DF4","U+2DF5","U+2DF6","U+2DF7","U+2DF8","U+2DF9",
   "U+2DFA","U+2DFB","U+2DFC","U+2DFD","U+2DFE","U+2DFF","U+2E2F","U+3005",
   "U+302A","U+302B","U+302C","U+302D","U+3031","U+3032","U+3033","U+3034",
   "U+3035","U+303B","U+3099","U+309A","U+309B","U+309C","U+309D","U+309E",
   "U+30FC","U+30FD","U+30FE","U+A015","U+A4F8","U+A4F9","U+A4FA","U+A4FB",
   "U+A4FC","U+A4FD","U+A60C","U+A66F","U+A670","U+A671","U+A672","U+A674",
   "U+A675","U+A676","U+A677","U+A678","U+A679","U+A67A","U+A67B","U+A67C",
   "U+A67D","U+A67F","U+A69C","U+A69D","U+A69E","U+A69F","U+A6F0","U+A6F1",
   "U+A700","U+A701","U+A702","U+A703","U+A704","U+A705","U+A706","U+A707",
   "U+A708","U+A709","U+A70A","U+A70B","U+A70C","U+A70D","U+A70E","U+A70F",
   "U+A710","U+A711","U+A712","U+A713","U+A714","U+A715","U+A716","U+A717",
   "U+A718","U+A719","U+A71A","U+A71B","U+A71C","U+A71D","U+A71E","U+A71F",
   "U+A720","U+A721","U+A770","U+A788","U+A789","U+A78A","U+A7F1","U+A7F2",
   "U+A7F3","U+A7F4","U+A7F8","U+A7F9","U+A802","U+A806","U+A80B","U+A825",
   "U+A826","U+A82C","U+A8C4","U+A8C5","U+A8E0","U+A8E1","U+A8E2","U+A8E3",
   "U+A8E4","U+A8E5","U+A8E6","U+A8E7","U+A8E8","U+A8E9","U+A8EA","U+A8EB",
   "U+A8EC","U+A8ED","U+A8EE","U+A8EF","U+A8F0","U+A8F1","U+A8FF","U+A926",
   "U+A927","U+A928","U+A929","U+A92A","U+A92B","U+A92C","U+A92D","U+A947",
   "U+A948","U+A949","U+A94A","U+A94B","U+A94C","U+A94D","U+A94E","U+A94F",
   "U+A950","U+A951","U+A980","U+A981","U+A982","U+A9B3","U+A9B6","U+A9B7",
   "U+A9B8","U+A9B9","U+A9BC","U+A9BD","U+A9CF","U+A9E5","U+A9E6","U+AA29",
   "U+AA2A","U+AA2B","U+AA2C","U+AA2D","U+AA2E","U+AA31","U+AA32","U+AA35",
   "U+AA36","U+AA43","U+AA4C","U+AA70","U+AA7C","U+AAB0","U+AAB2","U+AAB3",
   "U+AAB4","U+AAB7","U+AAB8","U+AABE","U+AABF","U+AAC1","U+AADD","U+AAEC",
   "U+AAED","U+AAF3","U+AAF4","U+AAF6","U+AB5B","U+AB5C","U+AB5D","U+AB5E",
   "U+AB5F","U+AB69","U+AB6A","U+AB6B","U+ABE5","U+ABE8","U+ABED","U+FB1E",
   "U+FBB2","U+FBB3","U+FBB4","U+FBB5","U+FBB6","U+FBB7","U+FBB8","U+FBB9",
   "U+FBBA","U+FBBB","U+FBBC","U+FBBD","U+FBBE","U+FBBF","U+FBC0","U+FBC1",
   "U+FBC2","U+FE00","U+FE01","U+FE02","U+FE03","U+FE04","U+FE05","U+FE06",
   "U+FE07","U+FE08","U+FE09","U+FE0A","U+FE0B","U+FE0C","U+FE0D","U+FE0E",
   "U+FE0F","U+FE13","U+FE20","U+FE21","U+FE22","U+FE23","U+FE24","U+FE25",
   "U+FE26","U+FE27","U+FE28","U+FE29","U+FE2A","U+FE2B","U+FE2C","U+FE2D",
   "U+FE2E","U+FE2F","U+FE52","U+FE55","U+FEFF","U+FF07","U+FF0E","U+FF1A",
   "U+FF3E","U+FF40","U+FF70","U+FF9E","U+FF9F","U+FFE3","U+FFF9","U+FFFA",
   "U+FFFB"}

IgnorablePairs ==
  {<<"U+D800","U+DDFD">>,<<"U+D800","U+DEE0">>,<<"U+D800","U+DF76">>,
   <<"U+D800","U+DF77">>,<<"U+D800","U+DF78">>,<<"U+D800","U+DF79">>,
   <<"U+D800","U+DF7A">>,<<"U+D801","U+DF80">>,<<"U+D801","U+DF81">>,
   <<"U+D801","U+DF82">>,<<"U+D801","U+DF83">>,<<"U+D801","U+DF84">>,
   <<"U+D801","U+DF85">>,<<"U+D801","U+DF87">>,<<"U+D801","U+DF88">>,
   <<"U+D801","U+DF89">>,<<"U+D801","U+DF8A">>,<<"U+D801","U+DF8B">>,
   <<"U+D801","U+DF8C">>,<<"U+D801","U+DF8D">>,<<"U+D801","U+DF8E">>,
   <<"U+D801","U+DF8F">>,<<"U+D801","U+DF90">>,<<"U+D801","U+DF91">>,
   <<"U+D801","U+DF92">>,<<"U+D801","U+DF93">>,<<"U+D801","U+DF94">>,
   <<"U+D801","U+DF95">>,<<"U+D801","U+DF96">>,<<"U+D801","U+DF97">>,
   <<"U+D801","U+DF98">>,<<"U+D801","U+DF99">>,<<"U+D801","U+DF9A">>,
   <<"U+D801","U+DF9B">>,<<"U+D801","U+DF9C">>,<<"U+D801","U+DF9D">>,
   <<"U+D801","U+DF9E">>,<<"U+D801","U+DF9F">>,<<"U+D801","U+DFA0">>,
   <<"U+D801","U+DFA1">>,<<"U+D801","U+DFA2">>,<<"U+D801","U+DFA3">>,
   <<"U+D801","U+DFA4">>,<<"U+D801","U+DFA5">>,<<"U+D801","U+DFA6">>,
   <<"U+D801","U+DFA7">>,<<"U+D801","U+DFA8">>,<<"U+D801","U+DFA9">>,
   <<"U+D801","U+DFAA">>,<<"U+D801","U+DFAB">>,<<"U+D801","U+DFAC">>,
   <<"U+D801","U+DFAD">>,<<"U+D801","U+DFAE">>,<<"U+D801","U+DFAF">>,
   <<"U+D801","U+DFB0">>,<<"U+D801","U+DFB2">>,<<"U+D801","U+DFB3">>,
   <<"U+D801","U+DFB4">>,<<"U+D801","U+DFB5">>,<<"U+D801","U+DFB6">>,
   <<"U+D801","U+DFB7">>,<<"U+D801","U+DFB8">>,<<"U+D801","U+DFB9">>,
   <<"U+D801","U+DFBA">>,<<"U+D802","U+DE01">>,<<"U+D802","U+DE02">>,
   <<"U+D802","U+DE03">>,<<"U+D802","U+DE05">>,<<"U+D802","U+DE06">>,
   <<"U+D802","U+DE0C">>,<<"U+D802","U+DE0D">>,<<"U+D802","U+DE0E">>,
   <<"U+D802","U+DE0F">>,<<"U+D802","U+DE38">>,<<"U+D802","U+DE39">>,
   <<"U+D802","U+DE3A">>,<<"U+D802","U+DE3F">>,<<"U+D802","U+DEE5">>,
   <<"U+D802","U+DEE6">>,<<"U+D803","U+DD24">>,<<"U+D803","U+DD25">>,
   <<"U+D803","U+DD26">>,<<"U+D803","U+DD27">>,<<"U+D803","U+DD4E">>,
   <<"U+D803","U+DD69">>,<<"U+D803","U+DD6A">>,<<"U+D803","U+DD6B">>,
   <<"U+D803","U+DD6C">>,<<"U+D803","U+DD6D">>,<<"U+D803","U+DD6F">>,
   <<"U+D803","U+DEAB">>,<<"U+D803","U+DEAC">>,<<"U+D803","U+DEC5">>,
   <<"U+D803","U+DEFA">>,<<"U+D803","U+DEFB">>,<<"U+D803","U+DEFC">>,
   <<"U+D803","U+DEFD">>,<<"U+D803","U+DEFE">>,<<"U+D803","U+DEFF">>,
   <<"U+D803","U+DF46">>,<<"U+D803","U+DF47">>,<<"U+D803","U+DF48">>,
   <<"U+D803","U+DF49">>,<<"U+D803","U+DF4A">>,<<"U+D803","U+DF4B">>,
   <<"U+D803","U+DF4C">>,<<"U+D803","U+DF4D">>,<<"U+D803","U+DF4E">>,
   <<"U+D803","U+DF4F">>,<<"U+D803","U+DF50">>,<<"U+D803","U+DF82">>,
   <<"U+D803","U+DF83">>,<<"U+D803","U+DF84">>,<<"U+D803","U+DF85">>,
   <<"U+D804","U+DC01">>,<<"U+D804","U+DC38">>,<<"U+D804","U+DC39">>,
   <<"U+D804","U+DC3A">>,<<"U+D804","U+DC3B">>,<<"U+D804","U+DC3C">>,
   <<"U+D804","U+DC3D">>,<<"U+D804","U+DC3E">>,<<"U+D804","U+DC3F">>,
   <<"U+D804","U+DC40">>,<<"U+D804","U+DC41">>,<<"U+D804","U+DC42">>,
   <<"U+D804","U+DC43">>,<<"U+D804","U+DC44">>,<<"U+D804","U+DC45">>,
   <<"U+D804","U+DC46">>,<<"U+D804","U+DC70">>,<<"U+D804","U+DC73">>,
   <<"U+D804","U+DC74">>,<<"U+D804","U+DC7F">>,<<"U+D804","U+DC80">>,
   <<"U+D804","U+DC81">>,<<"U+D804","U+DCB3">>,<<"U+D804","U+DCB4">>,
   <<"U+D804","U+DCB5">>,<<"U+D804","U+DCB6">>,<<"U+D804","U+DCB9">>,
   <<"U+D804","U+DCBA">>,<<"U+D804","U+DCBD">>,<<"U+D804","U+DCC2">>,
   <<"U+D804","U+DCCD">>,<<"U+D804","U+DD00">>,<<"U+D804","U+DD01">>,
   <<"U+D804","U+DD02">>,<<"U+D804","U+DD27">>,<<"U+D804","U+DD28">>,
   <<"U+D804","U+DD29">>,<<"U+D804","U+DD2A">>,<<"U+D804","U+DD2B">>,
   <<"U+D804","U+DD2D">>,<<"U+D804","U+DD2E">>,<<"U+D804","U+DD2F">>,
   <<"U+D804","U+DD30">>,<<"U+D804","U+DD31">>,<<"U+D804","U+DD32">>,
   <<"U+D804","U+DD33">>,<<"U+D804","U+DD34">>,<<"U+D804","U+DD73">>,
   <<"U+D804","U+DD80">>,<<"U+D804","U+DD81">>,<<"U+D804","U+DDB6">>,
   <<"U+D804","U+DDB7">>,<<"U+D804","U+DDB8">>,<<"U+D804","U+DDB9">>,
   <<"U+D804","U+DDBA">>,<<"U+D804","U+DDBB">>,<<"U+D804","U+DDBC">>,
   <<"U+D804","U+DDBD">>,<<"U+D804","U+DDBE">>,<<"U+D804","U+DDC9">>,
   <<"U+D804","U+DDCA">>,<<"U+D804","U+DDCB">>,<<"U+D804","U+DDCC">>,
   <<"U+D804","U+DDCF">>,<<"U+D804","U+DE2F">>,<<"U+D804","U+DE30">>,
   <<"U+D804","U+DE31">>,<<"U+D804","U+DE34">>,<<"U+D804","U+DE36">>,
   <<"U+D804","U+DE37">>,<<"U+D804","U+DE3E">>,<<"U+D804","U+DE41">>,
   <<"U+D804","U+DEDF">>,<<"U+D804","U+DEE3">>,<<"U+D804","U+DEE4">>,
   <<"U+D804","U+DEE5">>,<<"U+D804","U+DEE6">>,<<"U+D804","U+DEE7">>,
   <<"U+D804","U+DEE8">>,<<"U+D804","U+DEE9">>,<<"U+D804","U+DEEA">>,
   <<"U+D804","U+DF00">>,<<"U+D804","U+DF01">>,<<"U+D804","U+DF3B">>,
   <<"U+D804","U+DF3C">>,<<"U+D804","U+DF40">>,<<"U+D804","U+DF66">>,
   <<"U+D804","U+DF67">>,<<"U+D804","U+DF68">>,<<"U+D804","U+DF69">>,
   <<"U+D804","U+DF6A">>,<<"U+D804","U+DF6B">>,<<"U+D804","U+DF6C">>,
   <<"U+D804","U+DF70">>,<<"U+D804","U+DF71">>,<<"U+D804","U+DF72">>,
   <<"U+D804","U+DF73">>,<<"U+D804","U+DF74">>,<<"U+D804","U+DFBB">>,
   <<"U+D804","U+DFBC">>,<<"U+D804","U+DFBD">>,<<"U+D804","U+DFBE">>,
   <<"U+D804","U+DFBF">>,<<"U+D804","U+DFC0">>,<<"U+D804","U+DFCE">>,
   <<"U+D804","U+DFD0">>,<<"U+D804","U+DFD2">>,<<"U+D804","U+DFE1">>,
   <<"U+D804","U+DFE2">>,<<"U+D805","U+DC38">>,<<"U+D805","U+DC39">>,
   <<"U+D805","U+DC3A">>,<<"U+D805","U+DC3B">>,<<"U+D805","U+DC3C">>,
   <<"U+D805","U+DC3D">>,<<"U+D805","U+DC3E">>,<<"U+D805","U+DC3F">>,
   <<"U+D805","U+DC42">>,<<"U+D805","U+DC43">>,<<"U+D805","U+DC44">>,
   <<"U+D805","U+DC46">>,<<"U+D805","U+DC5E">>,<<"U+D805","U+DCB3">>,
   <<"U+D805","U+DCB4">>,<<"U+D805","U+DCB5">>,<<"U+D805","U+DCB6">>,
   <<"U+D805","U+DCB7">>,<<"U+D805","U+DCB8">>,<<"U+D805","U+DCBA">>,
   <<"U+D805","U+DCBF">>,<<"U+D805","U+DCC0">>,<<"U+D805","U+DCC2">>,
   <<"U+D805","U+DCC3">>,<<"U+D805","U+DDB2">>,<<"U+D805","U+DDB3">>,
   <<"U+D805","U+DDB4">>,<<"U+D805","U+DDB5">>,<<"U+D805","U+DDBC">>,
   <<"U+D805","U+DDBD">>,<<"U+D805","U+DDBF">>,<<"U+D805","U+DDC0">>,
   <<"U+D805","U+DDDC">>,<<"U+D805","U+DDDD">>,<<"U+D805","U+DE33">>,
   <<"U+D805","U+DE34">>,<<"U+D805","U+DE35">>,<<"U+D805","U+DE36">>,
   <<"U+D805","U+DE37">>,<<"U+D805","U+DE38">>,<<"U+D805","U+DE39">>,
   <<"U+D805","U+DE3A">>,<<"U+D805","U+DE3D">>,<<"U+D805","U+DE3F">>,
   <<"U+D805","U+DE40">>,<<"U+D805","U+DEAB">>,<<"U+D805","U+DEAD">>,
   <<"U+D805","U+DEB0">>,<<"U+D805","U+DEB1">>,<<"U+D805","U+DEB2">>,
   <<"U+D805","U+DEB3">>,<<"U+D805","U+DEB4">>,<<"U+D805","U+DEB5">>,
   <<"U+D805","U+DEB7">>,<<"U+D805","U+DF1D">>,<<"U+D805","U+DF1F">>,
   <<"U+D805","U+DF22">>,<<"U+D805","U+DF23">>,<<"U+D805","U+DF24">>,
   <<"U+D805","U+DF25">>,<<"U+D805","U+DF27">>,<<"U+D805","U+DF28">>,
   <<"U+D805","U+DF29">>,<<"U+D805","U+DF2A">>,<<"U+D805","U+DF2B">>,
   <<"U+D806","U+DC2F">>,<<"U+D806","U+DC30">>,<<"U+D806","U+DC31">>,
   <<"U+D806","U+DC32">>,<<"U+D806","U+DC33">>,<<"U+D806","U+DC34">>,
   <<"U+D806","U+DC35">>,<<"U+D806","U+DC36">>,<<"U+D806","U+DC37">>,
   <<"U+D806","U+DC39">>,<<"U+D806","U+DC3A">>,<<"U+D806","U+DD3B">>,
   <<"U+D806","U+DD3C">>,<<"U+D806","U+DD3E">>,<<"U+D806","U+DD43">>,
   <<"U+D806","U+DDD4">>,<<"U+D806","U+DDD5">>,<<"U+D806","U+DDD6">>,
   <<"U+D806","U+DDD7">>,<<"U+D806","U+DDDA">>,<<"U+D806","U+DDDB">>,
   <<"U+D806","U+DDE0">>,<<"U+D806","U+DE01">>,<<"U+D806","U+DE02">>,
   <<"U+D806","U+DE03">>,<<"U+D806","U+DE04">>,<<"U+D806","U+DE05">>,
   <<"U+D806","U+DE06">>,<<"U+D806","U+DE07">>,<<"U+D806","U+DE08">>,
   <<"U+D806","U+DE09">>,<<"U+D806","U+DE0A">>,<<"U+D806","U+DE33">>,
   <<"U+D806","U+DE34">>,<<"U+D806","U+DE35">>,<<"U+D806","U+DE36">>,
   <<"U+D806","U+DE37">>,<<"U+D806","U+DE38">>,<<"U+D806","U+DE3B">>,
   <<"U+D806","U+DE3C">>,<<"U+D806","U+DE3D">>,<<"U+D806","U+DE3E">>,
   <<"U+D806","U+DE47">>,<<"U+D806","U+DE51">>,<<"U+D806","U+DE52">>,
   <<"U+D806","U+DE53">>,<<"U+D806","U+DE54">>,<<"U+D806","U+DE55">>,
   <<"U+D806","U+DE56">>,<<"U+D806","U+DE59">>,<<"U+D806","U+DE5A">>,
   <<"U+D806","U+DE5B">>,<<"U+D806","U+DE8A">>,<<"U+D806","U+DE8B">>,
   <<"U+D806","U+DE8C">>,<<"U+D806","U+DE8D">>,<<"U+D806","U+DE8E">>,
   <<"U+D806","U+DE8F">>,<<"U+D806","U+DE90">>,<<"U+D806","U+DE91">>,
   <<"U+D806","U+DE92">>,<<"U+D806","U+DE93">>,<<"U+D806","U+DE94">>,
   <<"U+D806","U+DE95">>,<<"U+D806","U+DE96">>,<<"U+D806","U+DE98">>,
   <<"U+D806","U+DE99">>,<<"U+D806","U+DF60">>,<<"U+D806","U+DF62">>,
   <<"U+D806","U+DF63">>,<<"U+D806","U+DF64">>,<<"U+D806","U+DF66">>,
   <<"U+D807","U+DC30">>,<<"U+D807","U+DC31">>,<<"U+D807","U+DC32">>,
   <<"U+D807","U+DC33">>,<<"U+D807","U+DC34">>,<<"U+D807","U+DC35">>,
   <<"U+D807","U+DC36">>,<<"U+D807","U+DC38">>,<<"U+D807","U+DC39">>,
   <<"U+D807","U+DC3A">>,<<"U+D807","U+DC3B">>,<<"U+D807","U+DC3C">>,
   <<"U+D807","U+DC3D">>,<<"U+D807","U+DC3F">>,<<"U+D807","U+DC92">>,
   <<"U+D807","U+DC93">>,<<"U+D807","U+DC94">>,<<"U+D807","U+DC95">>,
   <<"U+D807","U+DC96">>,<<"U+D807","U+DC97">>,<<"U+D807","U+DC98">>,
   <<"U+D807","U+DC99">>,<<"U+D807","U+DC9A">>,<<"U+D807","U+DC9B">>,
   <<"U+D807","U+DC9C">>,<<"U+D807","U+DC9D">>,<<"U+D807","U+DC9E">>,
   <<"U+D807","U+DC9F">>,<<"U+D807","U+DCA0">>,<<"U+D807","U+DCA1">>,
   <<"U+D807","U+DCA2">>,<<"U+D807","U+DCA3">>,<<"U+D807","U+DCA4">>,
   <<"U+D807","U+DCA5">>,<<"U+D807","U+DCA6">>,<<"U+D807","U+DCA7">>,
   <<"U+D807","U+DCAA">>,<<"U+D807","U+DCAB">>,<<"U+D807","U+DCAC">>,
   <<"U+D807","U+DCAD">>,<<"U+D807","U+DCAE">>,<<"U+D807","U+DCAF">>,
   <<"U+D807","U+DCB0">>,<<"U+D807","U+DCB2">>,<<"U+D807","U+DCB3">>,
   <<"U+D807","U+DCB5">>,<<"U+D807","U+DCB6">>,<<"U+D807","U+DD31">>,
   <<"U+D807","U+DD32">>,<<"U+D807","U+DD33">>,<<"U+D807","U+DD34">>,
   <<"U+D807","U+DD35">>,<<"U+D807","U+DD36">>,<<"U+D807","U+DD3A">>,
   <<"U+D807","U+DD3C">>,<<"U+D807","U+DD3D">>,<<"U+D807","U+DD3F">>,
   <<"U+D807","U+DD40">>,<<"U+D807","U+DD41">>,<<"U+D807","U+DD42">>,
   <<"U+D807","U+DD43">>,<<"U+D807","U+DD44">>,<<"U+D807","U+DD45">>,
   <<"U+D807","U+DD47">>,<<"U+D807","U+DD90">>,<<"U+D807","U+DD91">>,
   <<"U+D807","U+DD95">>,<<"U+D807","U+DD97">>,<<"U+D807","U+DDD9">>,
   <<"U+D807","U+DEF3">>,<<"U+D807","U+DEF4">>,<<"U+D807","U+DF00">>,
   <<"U+D807","U+DF01">>,<<"U+D807","U+DF36">>,<<"U+D807","U+DF37">>,
   <<"U+D807","U+DF38">>,<<"U+D807","U+DF39">>,<<"U+D807","U+DF3A">>,
   <<"U+D807","U+DF40">>,<<"U+D807","U+DF42">>,<<"U+D807","U+DF5A">>,
   <<"U+D80D","U+DC30">>,<<"U+D80D","U+DC31">>,<<"U+D80D","U+DC32">>,
   <<"U+D80D","U+DC33">>,<<"U+D80D","U+DC34">>,<<"U+D80D","U+DC35">>,
   <<"U+D80D","U+DC36">>,<<"U+D80D","U+DC37">>,<<"U+D80D","U+DC38">>,
   <<"U+D80D","U+DC39">>,<<"U+D80D","U+DC3A">>,<<"U+D80D","U+DC3B">>,
   <<"U+D80D","U+DC3C">>,<<"U+D80D","U+DC3D">>,<<"U+D80D","U+DC3E">>,
   <<"U+D80D","U+DC3F">>,<<"U+D80D","U+DC40">>,<<"U+D80D","U+DC47">>,
   <<"U+D80D","U+DC48">>,<<"U+D80D","U+DC49">>,<<"U+D80D","U+DC4A">>,
   <<"U+D80D","U+DC4B">>,<<"U+D80D","U+DC4C">>,<<"U+D80D","U+DC4D">>,
   <<"U+D80D","U+DC4E">>,<<"U+D80D","U+DC4F">>,<<"U+D80D","U+DC50">>,
   <<"U+D80D","U+DC51">>,<<"U+D80D","U+DC52">>,<<"U+D80D","U+DC53">>,
   <<"U+D80D","U+DC54">>,<<"U+D80D","U+DC55">>,<<"U+D818","U+DD1E">>,
   <<"U+D818","U+DD1F">>,<<"U+D818","U+DD20">>,<<"U+D818","U+DD21">>,
   <<"U+D818","U+DD22">>,<<"U+D818","U+DD23">>,<<"U+D818","U+DD24">>,
   <<"U+D818","U+DD25">>,<<"U+D818","U+DD26">>,<<"U+D818","U+DD27">>,
   <<"U+D818","U+DD28">>,<<"U+D818","U+DD29">>,<<"U+D818","U+DD2D">>,
   <<"U+D818","U+DD2E">>,<<"U+D818","U+DD2F">>,<<"U+D81A","U+DEF0">>,
   <<"U+D81A","U+DEF1">>,<<"U+D81A","U+DEF2">>,<<"U+D81A","U+DEF3">>,
   <<"U+D81A","U+DEF4">>,<<"U+D81A","U+DF30">>,<<"U+D81A","U+DF31">>,
   <<"U+D81A","U+DF32">>,<<"U+D81A","U+DF33">>,<<"U+D81A","U+DF34">>,
   <<"U+D81A","U+DF35">>,<<"U+D81A","U+DF36">>,<<"U+D81A","U+DF40">>,
   <<"U+D81A","U+DF41">>,<<"U+D81A","U+DF42">>,<<"U+D81A","U+DF43">>,
   <<"U+D81B","U+DD40">>,<<"U+D81B","U+DD41">>,<<"U+D81B","U+DD42">>,
   <<"U+D81B","U+DD6B">>,<<"U+D81B","U+DD6C">>,<<"U+D81B","U+DF4F">>,
   <<"U+D81B","U+DF8F">>,<<"U+D81B","U+DF90">>,<<"U+D81B","U+DF91">>,
   <<"U+D81B","U+DF92">>,<<"U+D81B","U+DF93">>,<<"U+D81B","U+DF94">>,
   <<"U+D81B","U+DF95">>,<<"U+D81B","U+DF96">>,<<"U+D81B","U+DF97">>,
   <<"U+D81B","U+DF98">>,<<"U+D81B","U+DF99">>,<<"U+D81B","U+DF9A">>,
   <<"U+D81B","U+DF9B">>,<<"U+D81B","U+DF9C">>,<<"U+D81B","U+DF9D">>,
   <<"U+D81B","U+DF9E">>,<<"U+D81B","U+DF9F">>,<<"U+D81B","U+DFE0">>,
   <<"U+D81B","U+DFE1">>,<<"U+D81B","U+DFE3">>,<<"U+D81B","U+DFE4">>,
   <<"U+D81B","U+DFF2">>,<<"U+D81B","U+DFF3">>,<<"U+D82B","U+DFF0">>,
   <<"U+D82B","U+DFF1">>,<<"U+D82B","U+DFF2">>,<<"U+D82B","U+DFF3">>,
   <<"U+D82B","U+DFF5">>,<<"U+D82B","U+DFF6">>,<<"U+D82B","U+DFF7">>,
   <<"U+D82B","U+DFF8">>,<<"U+D82B","U+DFF9">>,<<"U+D82B","U+DFFA">>,
   <<"U+D82B","U+DFFB">>,<<"U+D82B","U+DFFD">>,<<"U+D82B","U+DFFE">>,
   <<"U+D82F","U+DC9D">>,<<"U+D82F","U+DC9E">>,<<"U+D82F","U+DCA0">>,
   <<"U+D82F","U+DCA1">>,<<"U+D82F","U+DCA2">>,<<"U+D82F","U+DCA3">>,
   <<"U+D833","U+DF00">>,<<"U+D833","U+DF01">>,<<"U+D833","U+DF02">>,
   <<"U+D833","U+DF03">>,<<"U+D833","U+DF04">>,<<"U+D833","U+DF05">>,
   <<"U+D833","U+DF06">>,<<"U+D833","U+DF07">>,<<"U+D833","U+DF08">>,
   <<"U+D833","U+DF09">>,<<"U+D833","U+DF0A">>,<<"U+D833","U+DF0B">>,
   <<"U+D833","U+DF0C">>,<<"U+D833","U+DF0D">>,<<"U+D833","U+DF0E">>,
   <<"U+D833","U+DF0F">>,<<"U+D833","U+DF10">>,<<"U+D833","U+DF11">>,
   <<"U+D833","U+DF12">>,<<"U+D833","U+DF13">>,<<"U+D833","U+DF14">>,
   <<"U+D833","U+DF15">>,<<"U+D833","U+DF16">>,<<"U+D833","U+DF17">>,
   <<"U+D833","U+DF18">>,<<"U+D833","U+DF19">>,<<"U+D833","U+DF1A">>,
   <<"U+D833","U+DF1B">>,<<"U+D833","U+DF1C">>,<<"U+D833","U+DF1D">>,
   <<"U+D833","U+DF1E">>,<<"U+D833","U+DF1F">>,<<"U+D833","U+DF20">>,
   <<"U+D833","U+DF21">>,<<"U+D833","U+DF22">>,<<"U+D833","U+DF23">>,
   <<"U+D833","U+DF24">>,<<"U+D833","U+DF25">>,<<"U+D833","U+DF26">>,
   <<"U+D833","U+DF27">>,<<"U+D833","U+DF28">>,<<"U+D833","U+DF29">>,
   <<"U+D833","U+DF2A">>,<<"U+D833","U+DF2B">>,<<"U+D833","U+DF2C">>,
   <<"U+D833","U+DF2D">>,<<"U+D833","U+DF30">>,<<"U+D833","U+DF31">>,
   <<"U+D833","U+DF32">>,<<"U+D833","U+DF33">>,<<"U+D833","U+DF34">>,
   <<"U+D833","U+DF35">>,<<"U+D833","U+DF36">>,<<"U+D833","U+DF37">>,
   <<"U+D833","U+DF38">>,<<"U+D833","U+DF39">>,<<"U+D833","U+DF3A">>,
   <<"U+D833","U+DF3B">>,<<"U+D833","U+DF3C">>,<<"U+D833","U+DF3D">>,
   <<"U+D833","U+DF3E">>,<<"U+D833","U+DF3F">>,<<"U+D833","U+DF40">>,
   <<"U+D833","U+DF41">>,<<"U+D833","U+DF42">>,<<"U+D833","U+DF43">>,
   <<"U+D833","U+DF44">>,<<"U+D833","U+DF45">>,<<"U+D833","U+DF46">>,
   <<"U+D834","U+DD67">>,<<"U+D834","U+DD68">>,<<"U+D834","U+DD69">>,
   <<"U+D834","U+DD73">>,<<"U+D834","U+DD74">>,<<"U+D834","U+DD75">>,
   <<"U+D834","U+DD76">>,<<"U+D834","U+DD77">>,<<"U+D834","U+DD78">>,
   <<"U+D834","U+DD79">>,<<"U+D834","U+DD7A">>,<<"U+D834","U+DD7B">>,
   <<"U+D834","U+DD7C">>,<<"U+D834","U+DD7D">>,<<"U+D834","U+DD7E">>,
   <<"U+D834","U+DD7F">>,<<"U+D834","U+DD80">>,<<"U+D834","U+DD81">>,
   <<"U+D834","U+DD82">>,<<"U+D834","U+DD85">>,<<"U+D834","U+DD86">>,
   <<"U+D834","U+DD87">>,<<"U+D834","U+DD88">>,<<"U+D834","U+DD89">>,
   <<"U+D834","U+DD8A">>,<<"U+D834","U+DD8B">>,<<"U+D834","U+DDAA">>,
   <<"U+D834","U+DDAB">>,<<"U+D834","U+DDAC">>,<<"U+D834","U+DDAD">>,
   <<"U+D834","U+DE42">>,<<"U+D834","U+DE43">>,<<"U+D834","U+DE44">>,
   <<"U+D836","U+DE00">>,<<"U+D836","U+DE01">>,<<"U+D836","U+DE02">>,
   <<"U+D836","U+DE03">>,<<"U+D836","U+DE04">>,<<"U+D836","U+DE05">>,
   <<"U+D836","U+DE06">>,<<"U+D836","U+DE07">>,<<"U+D836","U+DE08">>,
   <<"U+D836","U+DE09">>,<<"U+D836","U+DE0A">>,<<"U+D836","U+DE0B">>,
   <<"U+D836","U+DE0C">>,<<"U+D836","U+DE0D">>,<<"U+D836","U+DE0E">>,
   <<"U+D836","U+DE0F">>,<<"U+D836","U+DE10">>,<<"U+D836","U+DE11">>,
   <<"U+D836","U+DE12">>,<<"U+D836","U+DE13">>,<<"U+D836","U+DE14">>,
   <<"U+D836","U+DE15">>,<<"U+D836","U+DE16">>,<<"U+D836","U+DE17">>,
   <<"U+D836","U+DE18">>,<<"U+D836","U+DE19">>,<<"U+D836","U+DE1A">>,
   <<"U+D836","U+DE1B">>,<<"U+D836","U+DE1C">>,<<"U+D836","U+DE1D">>,
   <<"U+D836","U+DE1E">>,<<"U+D836","U+DE1F">>,<<"U+D836","U+DE20">>,
   <<"U+D836","U+DE21">>,<<"U+D836","U+DE22">>,<<"U+D836","U+DE23">>,
   <<"U+D836","U+DE24">>,<<"U+D836","U+DE25">>,<<"U+D836","U+DE26">>,
   <<"U+D836","U+DE27">>,<<"U+D836","U+DE28">>,<<"U+D836","U+DE29">>,
   <<"U+D836","U+DE2A">>,<<"U+D836","U+DE2B">>,<<"U+D836","U+DE2C">>,
   <<"U+D836","U+DE2D">>,<<"U+D836","U+DE2E">>,<<"U+D836","U+DE2F">>,
   <<"U+D836","U+DE30">>,<<"U+D836","U+DE31">>,<<"U+D836","U+DE32">>,
   <<"U+D836","U+DE33">>,<<"U+D836","U+DE34">>,<<"U+D836","U+DE35">>,
   <<"U+D836","U+DE36">>,<<"U+D836","U+DE3B">>,<<"U+D836","U+DE3C">>,
   <<"U+D836","U+DE3D">>,<<"U+D836","U+DE3E">>,<<"U+D836","U+DE3F">>,
   <<"U+D836","U+DE40">>,<<"U+D836","U+DE41">>,<<"U+D836","U+DE42">>,
   <<"U+D836","U+DE43">>,<<"U+D836","U+DE44">>,<<"U+D836","U+DE45">>,
   <<"U+D836","U+DE46">>,<<"U+D836","U+DE47">>,<<"U+D836","U+DE48">>,
   <<"U+D836","U+DE49">>,<<"U+D836","U+DE4A">>,<<"U+D836","U+DE4B">>,
   <<"U+D836","U+DE4C">>,<<"U+D836","U+DE4D">>,<<"U+D836","U+DE4E">>,
   <<"U+D836","U+DE4F">>,<<"U+D836","U+DE50">>,<<"U+D836","U+DE51">>,
   <<"U+D836","U+DE52">>,<<"U+D836","U+DE53">>,<<"U+D836","U+DE54">>,
   <<"U+D836","U+DE55">>,<<"U+D836","U+DE56">>,<<"U+D836","U+DE57">>,
   <<"U+D836","U+DE58">>,<<"U+D836","U+DE59">>,<<"U+D836","U+DE5A">>,
   <<"U+D836","U+DE5B">>,<<"U+D836","U+DE5C">>,<<"U+D836","U+DE5D">>,
   <<"U+D836","U+DE5E">>,<<"U+D836","U+DE5F">>,<<"U+D836","U+DE60">>,
   <<"U+D836","U+DE61">>,<<"U+D836","U+DE62">>,<<"U+D836","U+DE63">>,
   <<"U+D836","U+DE64">>,<<"U+D836","U+DE65">>,<<"U+D836","U+DE66">>,
   <<"U+D836","U+DE67">>,<<"U+D836","U+DE68">>,<<"U+D836","U+DE69">>,
   <<"U+D836","U+DE6A">>,<<"U+D836","U+DE6B">>,<<"U+D836","U+DE6C">>,
   <<"U+D836","U+DE75">>,<<"U+D836","U+DE84">>,<<"U+D836","U+DE9B">>,
   <<"U+D836","U+DE9C">>,<<"U+D836","U+DE9D">>,<<"U+D836","U+DE9E">>,
   <<"U+D836","U+DE9F">>,<<"U+D836","U+DEA1">>,<<"U+D836","U+DEA2">>,
   <<"U+D836","U+DEA3">>,<<"U+D836","U+DEA4">>,<<"U+D836","U+DEA5">>,
   <<"U+D836","U+DEA6">>,<<"U+D836","U+DEA7">>,<<"U+D836","U+DEA8">>,
   <<"U+D836","U+DEA9">>,<<"U+D836","U+DEAA">>,<<"U+D836","U+DEAB">>,
   <<"U+D836","U+DEAC">>,<<"U+D836","U+DEAD">>,<<"U+D836","U+DEAE">>,
   <<"U+D836","U+DEAF">>,<<"U+D838","U+DC00">>,<<"U+D838","U+DC01">>,
   <<"U+D838","U+DC02">>,<<"U+D838","U+DC03">>,<<"U+D838","U+DC04">>,
   <<"U+D838","U+DC05">>,<<"U+D838","U+DC06">>,<<"U+D838","U+DC08">>,
   <<"U+D838","U+DC09">>,<<"U+D838","U+DC0A">>,<<"U+D838","U+DC0B">>,
   <<"U+D838","U+DC0C">>,<<"U+D838","U+DC0D">>,<<"U+D838","U+DC0E">>,
   <<"U+D838","U+DC0F">>,<<"U+D838","U+DC10">>,<<"U+D838","U+DC11">>,
   <<"U+D838","U+DC12">>,<<"U+D838","U+DC13">>,<<"U+D838","U+DC14">>,
   <<"U+D838","U+DC15">>,<<"U+D838","U+DC16">>,<<"U+D838","U+DC17">>,
   <<"U+D838","U+DC18">>,<<"U+D838","U+DC1B">>,<<"U+D838","U+DC1C">>,
   <<"U+D838","U+DC1D">>,<<"U+D838","U+DC1E">>,<<"U+D838","U+DC1F">>,
   <<"U+D838","U+DC20">>,<<"U+D838","U+DC21">>,<<"U+D838","U+DC23">>,
   <<"U+D838","U+DC24">>,<<"U+D838","U+DC26">>,<<"U+D838","U+DC27">>,
   <<"U+D838","U+DC28">>,<<"U+D838","U+DC29">>,<<"U+D838","U+DC2A">>,
   <<"U+D838","U+DC30">>,<<"U+D838","U+DC31">>,<<"U+D838","U+DC32">>,
   <<"U+D838","U+DC33">>,<<"U+D838","U+DC34">>,<<"U+D838","U+DC35">>,
   <<"U+D838","U+DC36">>,<<"U+D838","U+DC37">>,<<"U+D838","U+DC38">>,
   <<"U+D838","U+DC39">>,<<"U+D838","U+DC3A">>,<<"U+D838","U+DC3B">>,
   <<"U+D838","U+DC3C">>,<<"U+D838","U+DC3D">>,<<"U+D838","U+DC3E">>,
   <<"U+D838","U+DC3F">>,<<"U+D838","U+DC40">>,<<"U+D838","U+DC41">>,
   <<"U+D838","U+DC42">>,<<"U+D838","U+DC43">>,<<"U+D838","U+DC44">>,
   <<"U+D838","U+DC45">>,<<"U+D838","U+DC46">>,<<"U+D838","U+DC47">>,
   <<"U+D838","U+DC48">>,<<"U+D838","U+DC49">>,<<"U+D838","U+DC4A">>,
   <<"U+D838","U+DC4B">>,<<"U+D838","U+DC4C">>,<<"U+D838","U+DC4D">>,
   <<"U+D838","U+DC4E">>,<<"U+D838","U+DC4F">>,<<"U+D838","U+DC50">>,
   <<"U+D838","U+DC51">>,<<"U+D838","U+DC52">>,<<"U+D838","U+DC53">>,
   <<"U+D838","U+DC54">>,<<"U+D838","U+DC55">>,<<"U+D838","U+DC56">>,
   <<"U+D838","U+DC57">>,<<"U+D838","U+DC58">>,<<"U+D838","U+DC59">>,
   <<"U+D838","U+DC5A">>,<<"U+D838","U+DC5B">>,<<"U+D838","U+DC5C">>,
   <<"U+D838","U+DC5D">>,<<"U+D838","U+DC5E">>,<<"U+D838","U+DC5F">>,
   <<"U+D838","U+DC60">>,<<"U+D838","U+DC61">>,<<"U+D838","U+DC62">>,
   <<"U+D838","U+DC63">>,<<"U+D838","U+DC64">>,<<"U+D838","U+DC65">>,
   <<"U+D838","U+DC66">>,<<"U+D838","U+DC67">>,<<"U+D838","U+DC68">>,
   <<"U+D838","U+DC69">>,<<"U+D838","U+DC6A">>,<<"U+D838","U+DC6B">>,
   <<"U+D838","U+DC6C">>,<<"U+D838","U+DC6D">>,<<"U+D838","U+DC8F">>,
   <<"U+D838","U+DD30">>,<<"U+D838","U+DD31">>,<<"U+D838","U+DD32">>,
   <<"U+D838","U+DD33">>,<<"U+D838","U+DD34">>,<<"U+D838","U+DD35">>,
   <<"U+D838","U+DD36">>,<<"U+D838","U+DD37">>,<<"U+D838","U+DD38">>,
   <<"U+D838","U+DD39">>,<<"U+D838","U+DD3A">>,<<"U+D838","U+DD3B">>,
   <<"U+D838","U+DD3C">>,<<"U+D838","U+DD3D">>,<<"U+D838","U+DEAE">>,
   <<"U+D838","U+DEEC">>,<<"U+D838","U+DEED">>,<<"U+D838","U+DEEE">>,
   <<"U+D838","U+DEEF">>,<<"U+D839","U+DCEB">>,<<"U+D839","U+DCEC">>,
   <<"U+D839","U+DCED">>,<<"U+D839","U+DCEE">>,<<"U+D839","U+DCEF">>,
   <<"U+D839","U+DDEE">>,<<"U+D839","U+DDEF">>,<<"U+D839","U+DEE3">>,
   <<"U+D839","U+DEE6">>,<<"U+D839","U+DEEE">>,<<"U+D839","U+DEEF">>,
   <<"U+D839","U+DEF5">>,<<"U+D839","U+DEFF">>,<<"U+D83A","U+DCD0">>,
   <<"U+D83A","U+DCD1">>,<<"U+D83A","U+DCD2">>,<<"U+D83A","U+DCD3">>,
   <<"U+D83A","U+DCD4">>,<<"U+D83A","U+DCD5">>,<<"U+D83A","U+DCD6">>,
   <<"U+D83A","U+DD44">>,<<"U+D83A","U+DD45">>,<<"U+D83A","U+DD46">>,
   <<"U+D83A","U+DD47">>,<<"U+D83A","U+DD48">>,<<"U+D83A","U+DD49">>,
   <<"U+D83A","U+DD4A">>,<<"U+D83A","U+DD4B">>,<<"U+D83C","U+DFFB">>,
   <<"U+D83C","U+DFFC">>,<<"U+D83C","U+DFFD">>,<<"U+D83C","U+DFFE">>,
   <<"U+D83C","U+DFFF">>,<<"U+DB40","U+DC01">>,<<"U+DB40","U+DC20">>,
   <<"U+DB40","U+DC21">>,<<"U+DB40","U+DC22">>,<<"U+DB40","U+DC23">>,
   <<"U+DB40","U+DC24">>,<<"U+DB40","U+DC25">>,<<"U+DB40","U+DC26">>,
   <<"U+DB40","U+DC27">>,<<"U+DB40","U+DC28">>,<<"U+DB40","U+DC29">>,
   <<"U+DB40","U+DC2A">>,<<"U+DB40","U+DC2B">>,<<"U+DB40","U+DC2C">>,
   <<"U+DB40","U+DC2D">>,<<"U+DB40","U+DC2E">>,<<"U+DB40","U+DC2F">>,
   <<"U+DB40","U+DC30">>,<<"U+DB40","U+DC31">>,<<"U+DB40","U+DC32">>,
   <<"U+DB40","U+DC33">>,<<"U+DB40","U+DC34">>,<<"U+DB40","U+DC35">>,
   <<"U+DB40","U+DC36">>,<<"U+DB40","U+DC37">>,<<"U+DB40","U+DC38">>,
   <<"U+DB40","U+DC39">>,<<"U+DB40","U+DC3A">>,<<"U+DB40","U+DC3B">>,
   <<"U+DB40","U+DC3C">>,<<"U+DB40","U+DC3D">>,<<"U+DB40","U+DC3E">>,
   <<"U+DB40","U+DC3F">>,<<"U+DB40","U+DC40">>,<<"U+DB40","U+DC41">>,
   <<"U+DB40","U+DC42">>,<<"U+DB40","U+DC43">>,<<"U+DB40","U+DC44">>,
   <<"U+DB40","U+DC45">>,<<"U+DB40","U+DC46">>,<<"U+DB40","U+DC47">>,
   <<"U+DB40","U+DC48">>,<<"U+DB40","U+DC49">>,<<"U+DB40","U+DC4A">>,
   <<"U+DB40","U+DC4B">>,<<"U+DB40","U+DC4C">>,<<"U+DB40","U+DC4D">>,
   <<"U+DB40","U+DC4E">>,<<"U+DB40","U+DC4F">>,<<"U+DB40","U+DC50">>,
   <<"U+DB40","U+DC51">>,<<"U+DB40","U+DC52">>,<<"U+DB40","U+DC53">>,
   <<"U+DB40","U+DC54">>,<<"U+DB40","U+DC55">>,<<"U+DB40","U+DC56">>,
   <<"U+DB40","U+DC57">>,<<"U+DB40","U+DC58">>,<<"U+DB40","U+DC59">>,
   <<"U+DB40","U+DC5A">>,<<"U+DB40","U+DC5B">>,<<"U+DB40","U+DC5C">>,
   <<"U+DB40","U+DC5D">>,<<"U+DB40","U+DC5E">>,<<"U+DB40","U+DC5F">>,
   <<"U+DB40","U+DC60">>,<<"U+DB40","U+DC61">>,<<"U+DB40","U+DC62">>,
   <<"U+DB40","U+DC63">>,<<"U+DB40","U+DC64">>,<<"U+DB40","U+DC65">>,
   <<"U+DB40","U+DC66">>,<<"U+DB40","U+DC67">>,<<"U+DB40","U+DC68">>,
   <<"U+DB40","U+DC69">>,<<"U+DB40","U+DC6A">>,<<"U+DB40","U+DC6B">>,
   <<"U+DB40","U+DC6C">>,<<"U+DB40","U+DC6D">>,<<"U+DB40","U+DC6E">>,
   <<"U+DB40","U+DC6F">>,<<"U+DB40","U+DC70">>,<<"U+DB40","U+DC71">>,
   <<"U+DB40","U+DC72">>,<<"U+DB40","U+DC73">>,<<"U+DB40","U+DC74">>,
   <<"U+DB40","U+DC75">>,<<"U+DB40","U+DC76">>,<<"U+DB40","U+DC77">>,
   <<"U+DB40","U+DC78">>,<<"U+DB40","U+DC79">>,<<"U+DB40","U+DC7A">>,
   <<"U+DB40","U+DC7B">>,<<"U+DB40","U+DC7C">>,<<"U+DB40","U+DC7D">>,
   <<"U+DB40","U+DC7E">>,<<"U+DB40","U+DC7F">>,<<"U+DB40","U+DD00">>,
   <<"U+DB40","U+DD01">>,<<"U+DB40","U+DD02">>,<<"U+DB40","U+DD03">>,
   <<"U+DB40","U+DD04">>,<<"U+DB40","U+DD05">>,<<"U+DB40","U+DD06">>,
   <<"U+DB40","U+DD07">>,<<"U+DB40","U+DD08">>,<<"U+DB40","U+DD09">>,
   <<"U+DB40","U+DD0A">>,<<"U+DB40","U+DD0B">>,<<"U+DB40","U+DD0C">>,
   <<"U+DB40","U+DD0D">>,<<"U+DB40","U+DD0E">>,<<"U+DB40","U+DD0F">>,
   <<"U+DB40","U+DD10">>,<<"U+DB40","U+DD11">>,<<"U+DB40","U+DD12">>,
   <<"U+DB40","U+DD13">>,<<"U+DB40","U+DD14">>,<<"U+DB40","U+DD15">>,
   <<"U+DB40","U+DD16">>,<<"U+DB40","U+DD17">>,<<"U+DB40","U+DD18">>,
   <<"U+DB40","U+DD19">>,<<"U+DB40","U+DD1A">>,<<"U+DB40","U+DD1B">>,
   <<"U+DB40","U+DD1C">>,<<"U+DB40","U+DD1D">>,<<"U+DB40","U+DD1E">>,
   <<"U+DB40","U+DD1F">>,<<"U+DB40","U+DD20">>,<<"U+DB40","U+DD21">>,
   <<"U+DB40","U+DD22">>,<<"U+DB40","U+DD23">>,<<"U+DB40","U+DD24">>,
   <<"U+DB40","U+DD25">>,<<"U+DB40","U+DD26">>,<<"U+DB40","U+DD27">>,
   <<"U+DB40","U+DD28">>,<<"U+DB40","U+DD29">>,<<"U+DB40","U+DD2A">>,
   <<"U+DB40","U+DD2B">>,<<"U+DB40","U+DD2C">>,<<"U+DB40","U+DD2D">>,
   <<"U+DB40","U+DD2E">>,<<"U+DB40","U+DD2F">>,<<"U+DB40","U+DD30">>,
   <<"U+DB40","U+DD31">>,<<"U+DB40","U+DD32">>,<<"U+DB40","U+DD33">>,
   <<"U+DB40","U+DD34">>,<<"U+DB40","U+DD35">>,<<"U+DB40","U+DD36">>,
   <<"U+DB40","U+DD37">>,<<"U+DB40","U+DD38">>,<<"U+DB40","U+DD39">>,
   <<"U+DB40","U+DD3A">>,<<"U+DB40","U+DD3B">>,<<"U+DB40","U+DD3C">>,
   <<"U+DB40","U+DD3D">>,<<"U+DB40","U+DD3E">>,<<"U+DB40","U+DD3F">>,
   <<"U+DB40","U+DD40">>,<<"U+DB40","U+DD41">>,<<"U+DB40","U+DD42">>,
   <<"U+DB40","U+DD43">>,<<"U+DB40","U+DD44">>,<<"U+DB40","U+DD45">>,
   <<"U+DB40","U+DD46">>,<<"U+DB40","U+DD47">>,<<"U+DB40","U+DD48">>,
   <<"U+DB40","U+DD49">>,<<"U+DB40","U+DD4A">>,<<"U+DB40","U+DD4B">>,
   <<"U+DB40","U+DD4C">>,<<"U+DB40","U+DD4D">>,<<"U+DB40","U+DD4E">>,
   <<"U+DB40","U+DD4F">>,<<"U+DB40","U+DD50">>,<<"U+DB40","U+DD51">>,
   <<"U+DB40","U+DD52">>,<<"U+DB40","U+DD53">>,<<"U+DB40","U+DD54">>,
   <<"U+DB40","U+DD55">>,<<"U+DB40","U+DD56">>,<<"U+DB40","U+DD57">>,
   <<"U+DB40","U+DD58">>,<<"U+DB40","U+DD59">>,<<"U+DB40","U+DD5A">>,
   <<"U+DB40","U+DD5B">>,<<"U+DB40","U+DD5C">>,<<"U+DB40","U+DD5D">>,
   <<"U+DB40","U+DD5E">>,<<"U+DB40","U+DD5F">>,<<"U+DB40","U+DD60">>,
   <<"U+DB40","U+DD61">>,<<"U+DB40","U+DD62">>,<<"U+DB40","U+DD63">>,
   <<"U+DB40","U+DD64">>,<<"U+DB40","U+DD65">>,<<"U+DB40","U+DD66">>,
   <<"U+DB40","U+DD67">>,<<"U+DB40","U+DD68">>,<<"U+DB40","U+DD69">>,
   <<"U+DB40","U+DD6A">>,<<"U+DB40","U+DD6B">>,<<"U+DB40","U+DD6C">>,
   <<"U+DB40","U+DD6D">>,<<"U+DB40","U+DD6E">>,<<"U+DB40","U+DD6F">>,
   <<"U+DB40","U+DD70">>,<<"U+DB40","U+DD71">>,<<"U+DB40","U+DD72">>,
   <<"U+DB40","U+DD73">>,<<"U+DB40","U+DD74">>,<<"U+DB40","U+DD75">>,
   <<"U+DB40","U+DD76">>,<<"U+DB40","U+DD77">>,<<"U+DB40","U+DD78">>,
   <<"U+DB40","U+DD79">>,<<"U+DB40","U+DD7A">>,<<"U+DB40","U+DD7B">>,
   <<"U+DB40","U+DD7C">>,<<"U+DB40","U+DD7D">>,<<"U+DB40","U+DD7E">>,
   <<"U+DB40","U+DD7F">>,<<"U+DB40","U+DD80">>,<<"U+DB40","U+DD81">>,
   <<"U+DB40","U+DD82">>,<<"U+DB40","U+DD83">>,<<"U+DB40","U+DD84">>,
   <<"U+DB40","U+DD85">>,<<"U+DB40","U+DD86">>,<<"U+DB40","U+DD87">>,
   <<"U+DB40","U+DD88">>,<<"U+DB40","U+DD89">>,<<"U+DB40","U+DD8A">>,
   <<"U+DB40","U+DD8B">>,<<"U+DB40","U+DD8C">>,<<"U+DB40","U+DD8D">>,
   <<"U+DB40","U+DD8E">>,<<"U+DB40","U+DD8F">>,<<"U+DB40","U+DD90">>,
   <<"U+DB40","U+DD91">>,<<"U+DB40","U+DD92">>,<<"U+DB40","U+DD93">>,
   <<"U+DB40","U+DD94">>,<<"U+DB40","U+DD95">>,<<"U+DB40","U+DD96">>,
   <<"U+DB40","U+DD97">>,<<"U+DB40","U+DD98">>,<<"U+DB40","U+DD99">>,
   <<"U+DB40","U+DD9A">>,<<"U+DB40","U+DD9B">>,<<"U+DB40","U+DD9C">>,
   <<"U+DB40","U+DD9D">>,<<"U+DB40","U+DD9E">>,<<"U+DB40","U+DD9F">>,
   <<"U+DB40","U+DDA0">>,<<"U+DB40","U+DDA1">>,<<"U+DB40","U+DDA2">>,
   <<"U+DB40","U+DDA3">>,<<"U+DB40","U+DDA4">>,<<"U+DB40","U+DDA5">>,
   <<"U+DB40","U+DDA6">>,<<"U+DB40","U+DDA7">>,<<"U+DB40","U+DDA8">>,
   <<"U+DB40","U+DDA9">>,<<"U+DB40","U+DDAA">>,<<"U+DB40","U+DDAB">>,
   <<"U+DB40","U+DDAC">>,<<"U+DB40","U+DDAD">>,<<"U+DB40","U+DDAE">>,
   <<"U+DB40","U+DDAF">>,<<"U+DB40","U+DDB0">>,<<"U+DB40","U+DDB1">>,
   <<"U+DB40","U+DDB2">>,<<"U+DB40","U+DDB3">>,<<"U+DB40","U+DDB4">>,
   <<"U+DB40","U+DDB5">>,<<"U+DB40","U+DDB6">>,<<"U+DB40","U+DDB7">>,
   <<"U+DB40","U+DDB8">>,<<"U+DB40","U+DDB9">>,<<"U+DB40","U+DDBA">>,
   <<"U+DB40","U+DDBB">>,<<"U+DB40","U+DDBC">>,<<"U+DB40","U+DDBD">>,
   <<"U+DB40","U+DDBE">>,<<"U+DB40","U+DDBF">>,<<"U+DB40","U+DDC0">>,
   <<"U+DB40","U+DDC1">>,<<"U+DB40","U+DDC2">>,<<"U+DB40","U+DDC3">>,
   <<"U+DB40","U+DDC4">>,<<"U+DB40","U+DDC5">>,<<"U+DB40","U+DDC6">>,
   <<"U+DB40","U+DDC7">>,<<"U+DB40","U+DDC8">>,<<"U+DB40","U+DDC9">>,
   <<"U+DB40","U+DDCA">>,<<"U+DB40","U+DDCB">>,<<"U+DB40","U+DDCC">>,
   <<"U+DB40","U+DDCD">>,<<"U+DB40","U+DDCE">>,<<"U+DB40","U+DDCF">>,
   <<"U+DB40","U+DDD0">>,<<"U+DB40","U+DDD1">>,<<"U+DB40","U+DDD2">>,
   <<"U+DB40","U+DDD3">>,<<"U+DB40","U+DDD4">>,<<"U+DB40","U+DDD5">>,
   <<"U+DB40","U+DDD6">>,<<"U+DB40","U+DDD7">>,<<"U+DB40","U+DDD8">>,
   <<"U+DB40","U+DDD9">>,<<"U+DB40","U+DDDA">>,<<"U+DB40","U+DDDB">>,
   <<"U+DB40","U+DDDC">>,<<"U+DB40","U+DDDD">>,<<"U+DB40","U+DDDE">>,
   <<"U+DB40","U+DDDF">>,<<"U+DB40","U+DDE0">>,<<"U+DB40","U+DDE1">>,
   <<"U+DB40","U+DDE2">>,<<"U+DB40","U+DDE3">>,<<"U+DB40","U+DDE4">>,
   <<"U+DB40","U+DDE5">>,<<"U+DB40","U+DDE6">>,<<"U+DB40","U+DDE7">>,
   <<"U+DB40","U+DDE8">>,<<"U+DB40","U+DDE9">>,<<"U+DB40","U+DDEA">>,
   <<"U+DB40","U+DDEB">>,<<"U+DB40","U+DDEC">>,<<"U+DB40","U+DDED">>,
   <<"U+DB40","U+DDEE">>,<<"U+DB40","U+DDEF">>}

\* Cased and not Case_Ignorable: what the Final_Sigma rule looks for
CasedUnits ==
  {"A","B","C","D","E","F","G","H","I","J","K","L","M","N","O","P","Q","R",
   "S","T","U","V","W","X","Y","Z","a","b","c","d","e","f","g","h","i","j",
   "k","l","m","n","o","p","q","r","s","t","u","v","w","x","y","z","U+00AA",
   "U+00B5","U+00BA","U+00C0","U+00C1","U+00C2","U+00C3","U+00C4","U+00C5",
   "U+00C6","U+00C7","U+00C8","U+00C9","U+00CA","U+00CB","U+00CC","U+00CD",
   "U+00CE","U+00CF","U+00D0","U+00D1","U+00D2","U+00D3","U+00D4","U+00D5",
   "U+00D6","U+00D8","U+00D9","U+00DA","U+00DB","U+00DC","U+00DD","U+00DE",
   "U+00DF","U+00E0","U+00E1","U+00E2","U+00E3","U+00E4","U+00E5","U+00E6",
   "U+00E7","U+00E8","U+00E9","U+00EA","U+00EB","U+00EC","U+00ED","U+00EE",
   "U+00EF","U+00F0","U+00F1","U+00F2","U+00F3","U+00F4","U+00F5","U+00F6",
   "U+00F8","U+00F9","U+00FA","U+00FB","U+00FC","U+00FD","U+00FE","U+00FF",
   "U+0100","U+0101","U+0102","U+0103","U+0104","U+0105","U+0106","U+0107",
   "U+0108","U+0109","U+010A","U+010B","U+010C","U+010D","U+010E","U+010F",
   "U+0110","U+0111","U+0112","U+0113","U+0114","U+0115","U+0116","U+0117",
   "U+0118","U+0119","U+011A","U+011B","U+011C","U+011D","U+011E","U+011F",
   "U+0120","U+0121","U+0122","U+0123","U+0124","U+0125","U+0126","U+0127",
   "U+0128","U+0129","U+012A","U+012B","U+012C","U+012D","U+012E","U+012F",
   "U+0130","U+0131","U+0132","U+0133","U+0134","U+0135","U+0136","U+0137",
   "U+0138","U+0139","U+013A","U+013B","U+013C","U+013D","U+013E","U+013F",
   "U+0140","U+0141","U+0142","U+0143","U+0144","U+0145","U+0146","U+0147",
   "U+0148","U+0149","U+014A","U+014B","U+014C","U+014D","U+014E","U+014F",
   "U+0150","U+0151","U+0152","U+0153","U+0154","U+0155","U+0156","U+0157",
   "U+0158","U+0159","U+015A","U+015B","U+015C","U+015D","U+015E","U+015F",
   "U+0160","U+0161","U+0162","U+0163","U+0164","U+0165","U+0166","U+0167",
   "U+0168","U+0169","U+016A","U+016B","U+016C","U+016D","U+016E","U+016F",
   "U+0170","U+0171","U+0172","U+0173","U+0174","U+0175","U+0176","U+0177",
   "U+0178","U+0179","U+017A","U+017B","U+017C","U+017D","U+017E","U+017F",
   "U+0180","U+0181","U+0182","U+0183","U+0184","U+0185","U+0186","U+0187",
   "U+0188","U+0189","U+018A","U+018B","U+018C","U+018D","U+018E","U+018F",
   "U+0190","U+0191","U+0192","U+0193","U+0194","U+0195","U+0196","U+0197",
   "U+0198","U+0199","U+019A","U+019B","U+019C","U+019D","U+019E","U+019F",
   "U+01A0","U+01A1","U+01A2","U+01A3","U+01A4","U+01A5","U+01A6","U+01A7",
   "U+01A8","U+01A9","U+01AA","U+01AB","U+01AC","U+01AD","U+01AE","U+01AF",
   "U+01B0","U+01B1","U+01B2","U+01B3","U+01B4","U+01B5","U+01B6","U+01B7",
   "U+01B8","U+01B9","U+01BA","U+01BC","U+01BD","U+01BE","U+01BF","U+01C4",
   "U+01C5","U+01C6","U+01C7","U+01C8","U+01C9","U+01CA","U+01CB","U+01CC",
   "U+01CD","U+01CE","U+01CF","U+01D0","U+01D1","U+01D2","U+01D3","U+01D4",
   "U+01D5","U+01D6","U+01D7","U+01D8","U+01D9","U+01DA","U+01DB","U+01DC",
   "U+01DD","U+01DE","U+01DF","U+01E0","U+01E1","U+01E2","U+01E3","U+01E4",
   "U+01E5","U+01E6","U+01E7","U+01E8","U+01E9","U+01EA","U+01EB","U+01EC",
   "U+01ED","U+01EE","U+01EF","U+01F0","U+01F1","U+01F2","U+01F3","U+01F4",
   "U+01F5","U+01F6","U+01F7","U+01F8","U+01F9","U+01FA","U+01FB","U+01FC",
   "U+01FD","U+01FE","U+01FF","U+0200","U+0201","U+0202","U+0203","U+0204",
   "U+0205","U+0206","U+0207","U+0208","U+0209","U+020A","U+020B","U+020C",
   "U+020D","U+020E","U+020F","U+0210","U+0211","U+0212","U+0213","U+0214",
   "U+0215","U+0216","U+0217","U+0218","U+0219","U+021A","U+021B","U+021C",
   "U+021D","U+021E","U+021F","U+0220","U+0221","U+0222","U+0223","U+0224",
   "U+0225","U+0226","U+0227","U+0228","U+0229","U+022A","U+022B","U+022C",
   "U+022D","U+022E","U+022F","U+0230","U+0231","U+0232","U+0233","U+0234",
   "U+0235","U+0236","U+0237","U+0238","U+0239","U+023A","U+023B","U+023C",
   "U+023D","U+023E","U+023F","U+0240","U+0241","U+0242","U+0243","U+0244",
   "U+0245","U+0246","U+0247","U+0248","U+0249","U+024A","U+024B","U+024C",
   "U+024D","U+024E","U+024F","U+0250","U+0251","U+0252","U+0253","U+0254",
   "U+0255","U+0256","U+0257","U+0258","U+0259","U+025A","U+025B","U+025C",
   "U+025D","U+025E","U+025F","U+0260","U+0261","U+0262","U+0263","U+0264",
   "U+0265","U+0266","U+0267","U+0268","U+0269","U+026A","U+026B","U+026C",
   "U+026D","U+026E","U+026F","U+0270","U+0271","U+0272","U+0273","U+0274",
   "U+0275","U+0276","U+0277","U+0278","U+0279","U+027A","U+027B","U+027C",
   "U+027D","U+027E","U+027F","U+0280","U+0281","U+0282","U+0283","U+0284",
   "U+0285","U+0286","U+0287","U+0288","U+0289","U+028A","U+028B","U+028C",
   "U+028D","U+028E","U+028F","U+0290","U+0291","U+0292","U+0293","U+0296",
   "U+0297","U+0298","U+0299","U+029A","U+029B","U+029C","U+029D","U+029E",
   "U+029F","U+02A0","U+02A1","U+02A2","U+02A3","U+02A4","U+02A5","U+02A6",
   "U+02A7","U+02A8","U+02A9","U+02AA","U+02AB","U+02AC","U+02AD","U+02AE",
   "U+02AF","U+0370","U+0371","U+0372","U+0373","U+0376","U+0377","U+037B",
   "U+037C","U+037D","U+037F","U+0386","U+0388","U+0389","U+038A","U+038C",
   "U+038E","U+038F","U+0390","U+0391","U+0392","U+0393","U+0394","U+0395",
   "U+0396","U+0397","U+0398","U+0399","U+039A","U+039B","U+039C","U+039D",
   "U+039E","U+039F","U+03A0","U+03A1","U+03A3","U+03A4","U+03A5","U+03A6",
   "U+03A7","U+03A8","U+03A9","U+03AA","U+03AB","U+03AC","U+03AD","U+03AE",
   "U+03AF","U+03B0","U+03B1","U+03B2","U+03B3","U+03B4","U+03B5","U+03B6",
   "U+03B7","U+03B8","U+03B9","U+03BA","U+03BB","U+03BC","U+03BD","U+03BE",
   "U+03BF","U+03C0","U+03C1","U+03C2","U+03C3","U+03C4","U+03C5","U+03C6",
   "U+03C7","U+03C8","U+03C9","U+03CA","U+03CB","U+03CC","U+03CD","U+03CE",
   "U+03CF","U+03D0","U+03D1","U+03D2","U+03D3","U+03D4","U+03D5","U+03D6",
   "U+03D7","U+03D8","U+03D9","U+03DA","U+03DB","U+03DC","U+03DD","U+03DE",
   "U+03DF","U+03E0","U+03E1","U+03E2","U+03E3","U+03E4","U+03E5","U+03E6",
   "U+03E7","U+03E8","U+03E9","U+03EA","U+03EB","U+03EC","U+03ED","U+03EE",
   "U+03EF","U+03F0","U+03F1","U+03F2","U+03F3","U+03F4","U+03F5","U+03F7",
   "U+03F8","U+03F9","U+03FA","U+03FB","U+03FC","U+03FD","U+03FE","U+03FF",
   "U+0400","U+0401","U+0402","U+0403","U+0404","U+0405","U+0406","U+0407",
   "U+0408","U+0409","U+040A","U+040B","U+040C","U+040D","U+040E","U+040F",
   "U+0410","U+0411","U+0412","U+0413","U+0414","U+0415","U+0416","U+0417",
   "U+0418","U+0419","U+041A","U+041B","U+041C","U+041D","U+041E","U+041F",
   "U+0420","U+0421","U+0422","U+0423","U+0424","U+0425","U+0426","U+0427",
   "U+0428","U+0429","U+042A","U+042B","U+042C","U+042D","U+042E","U+042F",
   "U+0430","U+0431","U+0432","U+0433","U+0434","U+0435","U+0436","U+0437",
   "U+0438","U+0439","U+043A","U+043B","U+043C","U+043D","U+043E","U+043F",
   "U+0440","U+0441","U+0442","U+0443","U+0444","U+0445","U+0446","U+0447",
   "U+0448","U+0449","U+044A","U+044B","U+044C","U+044D","U+044E","U+044F",
   "U+0450","U+0451","U+0452","U+0453","U+0454","U+0455","U+0456","U+0457",
   "U+0458","U+0459","U+045A","U+045B","U+045C","U+045D","U+045E","U+045F",
   "U+0460","U+0461","U+0462","U+0463","U+0464","U+0465","U+0466","U+0467",
   "U+0468","U+0469","U+046A","U+046B","U+046C","U+046D","U+046E","U+046F",
   "U+0470","U+0471","U+0472","U+0473","U+0474","U+0475","U+0476","U+0477",
   "U+0478","U+0479","U+047A","U+047B","U+047C","U+047D","U+047E","U+047F",
   "U+0480","U+0481","U+048A","U+048B","U+048C","U+048D","U+048E","U+048F",
   "U+0490","U+0491","U+0492","U+0493","U+0494","U+0495","U+0496","U+0497",
   "U+0498","U+0499","U+049A","U+049B","U+049C","U+049D","U+049E","U+049F",
   "U+04A0","U+04A1","U+04A2","U+04A3","U+04A4","U+04A5","U+04A6","U+04A7",
   "U+04A8","U+04A9","U+04AA","U+04AB","U+04AC","U+04AD","U+04AE","U+04AF",
   "U+04B0","U+04B1","U+04B2","U+04B3","U+04B4","U+04B5","U+04B6","U+04B7",
   "U+04B8","U+04B9","U+04BA","U+04BB","U+04BC","U+04BD","U+04BE","U+04BF",
   "U+04C0","U+04C1","U+04C2","U+04C3","U+04C4","U+04C5","U+04C6","U+04C7",
   "U+04C8","U+04C9","U+04CA","U+04CB","U+04CC","U+04CD","U+04CE","U+04CF",
   "U+04D0","U+04D1","U+04D2","U+04D3","U+04D4","U+04D5","U+04D6","U+04D7",
   "U+04D8","U+04D9","U+04DA","U+04DB","U+04DC","U+04DD","U+04DE","U+04DF",
   "U+04E0","U+04E1","U+04E2","U+04E3","U+04E4","U+04E5","U+04E6","U+04E7",
   "U+04E8","U+04E9","U+04EA","U+04EB","U+04EC","U+04ED","U+04EE","U+04EF",
   "U+04F0","U+04F1","U+04F2","U+04F3","U+04F4","U+04F5","U+04F6","U+04F7",
   "U+04F8","U+04F9","U+04FA","U+04FB","U+04FC","U+04FD","U+04FE","U+04FF",
   "U+0500","U+0501","U+0502","U+0503","U+0504","U+0505","U+0506","U+0507",
   "U+0508","U+0509","U+050A","U+050B","U+050C","U+050D","U+050E","U+050F",
   "U+0510","U+0511","U+0512","U+0513","U+0514","U+0515","U+0516","U+0517",
   "U+0518","U+0519","U+051A","U+051B","U+051C","U+051D","U+051E","U+051F",
   "U+0520","U+0521","U+0522","U+0523","U+0524","U+0525","U+0526","U+0527",
   "U+0528","U+0529","U+052A","U+052B","U+052C","U+052D","U+052E","U+052F",
   "U+0531","U+0532","U+0533","U+0534","U+0535","U+0536","U+0537","U+0538",
   "U+0539","U+053A","U+053B","U+053C","U+053D","U+053E","U+053F","U+0540",
   "U+0541","U+0542","U+0543","U+0544","U+0545","U+0546","U+0547","U+0548",
   "U+0549","U+054A","U+054B","U+054C","U+054D","U+054E","U+054F","U+0550",
   "U+0551","U+0552","U+0553","U+0554","U+0555","U+0556","U+0560","U+0561",
   "U+0562","U+0563","U+0564","U+0565","U+0566","U+0567","U+0568","U+0569",
   "U+056A","U+056B","U+056C","U+056D","U+056E","U+056F","U+0570","U+0571",
   "U+0572","U+0573","U+0574","U+0575","U+0576","U+0577","U+0578","U+0579",
   "U+057A","U+057B","U+057C","U+057D","U+057E","U+057F","U+0580","U+0581",
   "U+0582","U+0583","U+0584","U+0585","U+0586","U+0587","U+0588","U+10A0",
   "U+10A1","U+10A2","U+10A3","U+10A4","U+10A5","U+10A6","U+10A7","U+10A8",
   "U+10A9","U+10AA","U+10AB","U+10AC","U+10AD","U+10AE","U+10AF","U+10B0",
   "U+10B1","U+10B2","U+10B3","U+10B4","U+10B5","U+10B6","U+10B7","U+10B8",
   "U+10B9","U+10BA","U+10BB","U+10BC","U+10BD","U+10BE","U+10BF","U+10C0",
   "U+10C1","U+10C2","U+10C3","U+10C4","U+10C5","U+10C7","U+10CD","U+10D0",
   "U+10D1","U+10D2","U+10D3","U+10D4","U+10D5","U+10D6","U+10D7","U+10D8",
   "U+10D9","U+10DA","U+10DB","U+10DC","U+10DD","U+10DE","U+10DF","U+10E0",
   "U+10E1","U+10E2","U+10E3","U+10E4","U+10E5","U+10E6","U+10E7","U+10E8",
   "U+10E9","U+10EA","U+10EB","U+10EC","U+10ED","U+10EE","U+10EF","U+10F0",
   "U+10F1","U+10F2","U+10F3","U+10F4","U+10F5","U+10F6","U+10F7","U+10F8",
   "U+10F9","U+10FA","U+10FD","U+10FE","U+10FF","U+13A0","U+13A1","U+13A2",
   "U+13A3","U+13A4","U+13A5","U+13A6","U+13A7","U+13A8","U+13A9","U+13AA",
   "U+13AB","U+13AC","U+13AD","U+13AE","U+13AF","U+13B0","U+13B1","U+13B2",
   "U+13B3","U+13B4","U+13B5","U+13B6","U+13B7","U+13B8","U+13B9","U+13BA",
   "U+13BB","U+13BC","U+13BD","U+13BE","U+13BF","U+13C0","U+13C1","U+13C2",
   "U+13C3","U+13C4","U+13C5","U+13C6","U+13C7","U+13C8","U+13C9","U+13CA",
   "U+13CB","U+13CC","U+13CD","U+13CE","U+13CF","U+13D0","U+13D1","U+13D2",
   "U+13D3","U+13D4","U+13D5","U+13D6","U+13D7","U+13D8","U+13D9","U+13DA",
   "U+13DB","U+13DC","U+13DD","U+13DE","U+13DF","U+13E0","U+13E1","U+13E2",
   "U+13E3","U+13E4","U+13E5","U+13E6","U+13E7","U+13E8","U+13E9","U+13EA",
   "U+13EB","U+13EC","U+13ED","U+13EE","U+13EF","U+13F0","U+13F1","U+13F2",
   "U+13F3","U+13F4","U+13F5","U+13F8","U+13F9","U+13FA","U+13FB","U+13FC",
   "U+13FD","U+1C80","U+1C81","U+1C82","U+1C83","U+1C84","U+1C85","U+1C86",
   "U+1C87","U+1C88","U+1C89","U+1C8A","U+1C90","U+1C91","U+1C92","U+1C93",
   "U+1C94","U+1C95","U+1C96","U+1C97","U+1C98","U+1C99","U+1C9A","U+1C9B",
   "U+1C9C","U+1C9D","U+1C9E","U+1C9F","U+1CA0","U+1CA1","U+1CA2","U+1CA3",
   "U+1CA4","U+1CA5","U+1CA6","U+1CA7","U+1CA8","U+1CA9","U+1CAA","U+1CAB",
   "U+1CAC","U+1CAD","U+1CAE","U+1CAF","U+1CB0","U+1CB1","U+1CB2","U+1CB3",
   "U+1CB4","U+1CB5","U+1CB6","U+1CB7","U+1CB8","U+1CB9","U+1CBA","U+1CBD",
   "U+1CBE","U+1CBF","U+1D00","U+1D01","U+1D02","U+1D03","U+1D04","U+1D05",
   "U+1D06","U+1D07","U+1D08","U+1D09","U+1D0A","U+1D0B","U+1D0C","U+1D0D",
   "U+1D0E","U+1D0F","U+1D10","U+1D11","U+1D12","U+1D13","U+1D14","U+1D15",
   "U+1D16","U+1D17","U+1D18","U+1D19","U+1D1A","U+1D1B","U+1D1C","U+1D1D",
   "U+1D1E","U+1D1F","U+1D20","U+1D21","U+1D22","U+1D23","U+1D24","U+1D25",
   "U+1D26","U+1D27","U+1D28","U+1D29","U+1D2A","U+1D2B","U+1D6B","U+1D6C",
   "U+1D6D","U+1D6E","U+1D6F","U+1D70","U+1D71","U+1D72","U+1D73","U+1D74",
   "U+1D75","U+1D76","U+1D77","U+1D79","U+1D7A","U+1D7B","U+1D7C","U+1D7D",
   "U+1D7E","U+1D7F","U+1D80","U+1D81","U+1D82","U+1D83","U+1D84","U+1D85",
   "U+1D86","U+1D87","U+1D88","U+1D89","U+1D8A","U+1D8B","U+1D8C","U+1D8D",
   "U+1D8E","U+1D8F","U+1D90","U+1D91","U+1D92","U+1D93","U+1D94","U+1D95",
   "U+1D96","U+1D97","U+1D98","U+1D99","U+1D9A","U+1E00","U+1E01","U+1E02",
   "U+1E03","U+1E04","U+1E05","U+1E06","U+1E07","U+1E08","U+1E09","U+1E0A",
   "U+1E0B","U+1E0C","U+1E0D","U+1E0E","U+1E0F","U+1E10","U+1E11","U+1E12",
   "U+1E13","U+1E14","U+1E15","U+1E16","U+1E17","U+1E18","U+1E19","U+1E1A",
   "U+1E1B","U+1E1C","U+1E1D","U+1E1E","U+1E1F","U+1E20","U+1E21","U+1E22",
   "U+1E23","U+1E24","U+1E25","U+1E26","U+1E27","U+1E28","U+1E29","U+1E2A",
   "U+1E2B","U+1E2C","U+1E2D","U+1E2E","U+1E2F","U+1E30","U+1E31","U+1E32",
   "U+1E33","U+1E34","U+1E35","U+1E36","U+1E37","U+1E38","U+1E39","U+1E3A",
   "U+1E3B","U+1E3C","U+1E3D","U+1E3E","U+1E3F","U+1E40","U+1E41","U+1E42",
   "U+1E43","U+1E44","U+1E45","U+1E46","U+1E47","U+1E48","U+1E49","U+1E4A",
   "U+1E4B","U+1E4C","U+1E4D","U+1E4E","U+1E4F","U+1E50","U+1E51","U+1E52",
   "U+1E53","U+1E54","U+1E55","U+1E56","U+1E57","U+1E58","U+1E59","U+1E5A",
   "U+1E5B","U+1E5C","U+1E5D","U+1E5E","U+1E5F","U+1E60","U+1E61","U+1E62",
   "U+1E63","U+1E64","U+1E65","U+1E66","U+1E67","U+1E68","U+1E69","U+1E6A",
   "U+1E6B","U+1E6C","U+1E6D","U+1E6E","U+1E6F","U+1E70","U+1E71","U+1E72",
   "U+1E73","U+1E74","U+1E75","U+1E76","U+1E77","U+1E78","U+1E79","U+1E7A",
   "U+1E7B","U+1E7C","U+1E7D","U+1E7E","U+1E7F","U+1E80","U+1E81","U+1E82",
   "U+1E83","U+1E84","U+1E85","U+1E86","U+1E87","U+1E88","U+1E89","U+1E8A",
   "U+1E8B","U+1E8C","U+1E8D","U+1E8E","U+1E8F","U+1E90","U+1E91","U+1E92",
   "U+1E93","U+1E94","U+1E95","U+1E96","U+1E97","U+1E98","U+1E99","U+1E9A",
   "U+1E9B","U+1E9C","U+1E9D","U+1E9E","U+1E9F","U+1EA0","U+1EA1","U+1EA2",
   "U+1EA3","U+1EA4","U+1EA5","U+1EA6","U+1EA7","U+1EA8","U+1EA9","U+1EAA",
   "U+1EAB","U+1EAC","U+1EAD","U+1EAE","U+1EAF","U+1EB0","U+1EB1","U+1EB2",
   "U+1EB3","U+1EB4","U+1EB5","U+1EB6","U+1EB7","U+1EB8","U+1EB9","U+1EBA",
   "U+1EBB","U+1EBC","U+1EBD","U+1EBE","U+1EBF","U+1EC0","U+1EC1","U+1EC2",
   "U+1EC3","U+1EC4","U+1EC5","U+1EC6","U+1EC7","U+1EC8","U+1EC9","U+1ECA",
   "U+1ECB","U+1ECC","U+1ECD","U+1ECE","U+1ECF","U+1ED0","U+1ED1","U+1ED2",
   "U+1ED3","U+1ED4","U+1ED5","U+1ED6","U+1ED7","U+1ED8","U+1ED9","U+1EDA",
   "U+1EDB","U+1EDC","U+1EDD","U+1EDE","U+1EDF","U+1EE0","U+1EE1","U+1EE2",
   "U+1EE3","U+1EE4","U+1EE5","U+1EE6","U+1EE7","U+1EE8","U+1EE9","U+1EEA",
   "U+1EEB","U+1EEC","U+1EED","U+1EEE","U+1EEF","U+1EF0","U+1EF1","U+1EF2",
   "U+1EF3","U+1EF4","U+1EF5","U+1EF6","U+1EF7","U+1EF8","U+1EF9","U+1EFA",
   "U+1EFB","U+1EFC","U+1EFD","U+1EFE","U+1EFF","U+1F00","U+1F01","U+1F02",
   "U+1F03","U+1F04","U+1F05","U+1F06","U+1F07","U+1F08","U+1F09","U+1F0A",
   "U+1F0B","U+1F0C","U+1F0D","U+1F0E","U+1F0F","U+1F10","U+1F11","U+1F12",
   "U+1F13","U+1F14","U+1F15","U+1F18","U+1F19","U+1F1A","U+1F1B","U+1F1C",
   "U+1F1D","U+1F20","U+1F21","U+1F22","U+1F23","U+1F24","U+1F25","U+1F26",
   "U+1F27","U+1F28","U+1F29","U+1F2A","U+1F2B","U+1F2C","U+1F2D","U+1F2E",
   "U+1F2F","U+1F30","U+1F31","U+1F32","U+1F33","U+1F34","U+1F35","U+1F36",
   "U+1F37","U+1F38","U+1F39","U+1F3A","U+1F3B","U+1F3C","U+1F3D","U+1F3E",
   "U+1F3F","U+1F40","U+1F41","U+1F42","U+1F43","U+1F44","U+1F45","U+1F48",
   "U+1F49","U+1F4A","U+1F4B","U+1F4C","U+1F4D","U+1F50","U+1F51","U+1F52",
   "U+1F53","U+1F54","U+1F55","U+1F56","U+1F57","U+1F59","U+1F5B","U+1F5D",
   "U+1F5F","U+1F60","U+1F61","U+1F62","U+1F63","U+1F64","U+1F65","U+1F66",
   "U+1F67","U+1F68","U+1F69","U+1F6A","U+1F6B","U+1F6C","U+1F6D","U+1F6E",
   "U+1F6F","U+1F70","U+1F71","U+1F72","U+1F73","U+1F74","U+1F75","U+1F76",
   "U+1F77","U+1F78","U+1F79","U+1F7A","U+1F7B","U+1F7C","U+1F7D","U+1F80",
   "U+1F81","U+1F82","U+1F83","U+1F84","U+1F85","U+1F86","U+1F87","U+1F88",
   "U+1F89","U+1F8A","U+1F8B","U+1F8C","U+1F8D","U+1F8E","U+1F8F","U+1F90",
   "U+1F91","U+1F92","U+1F93","U+1F94","U+1F95","U+1F96","U+1F97","U+1F98",
   "U+1F99","U+1F9A","U+1F9B","U+1F9C","U+1F9D","U+1F9E","U+1F9F","U+1FA0",
   "U+1FA1","U+1FA2","U+1FA3","U+1FA4","U+1FA5","U+1FA6","U+1FA7","U+1FA8",
   "U+1FA9","U+1FAA","U+1FAB","U+1FAC","U+1FAD","U+1FAE","U+1FAF","U+1FB0",
   "U+1FB1","U+1FB2","U+1FB3","U+1FB4","U+1FB6","U+1FB7","U+1FB8","U+1FB9",
   "U+1FBA","U+1FBB","U+1FBC","U+1FBE","U+1FC2","U+1FC3","U+1FC4","U+1FC6",
   "U+1FC7","U+1FC8","U+1FC9","U+1FCA","U+1FCB","U+1FCC","U+1FD0","U+1FD1",
   "U+1FD2","U+1FD3","U+1FD6","U+1FD7","U+1FD8","U+1FD9","U+1FDA","U+1FDB",
   "U+1FE0","U+1FE1","U+1FE2","U+1FE3","U+1FE4","U+1FE5","U+1FE6","U+1FE7",
   "U+1FE8","U+1FE9","U+1FEA","U+1FEB","U+1FEC","U+1FF2","U+1FF3","U+1FF4",
   "U+1FF6","U+1FF7","U+1FF8","U+1FF9","U+1FFA","U+1FFB","U+1FFC","U+2102",
   "U+2107","U+210A","U+210B","U+210C","U+210D","U+210E","U+210F","U+2110",
   "U+2111","U+2112","U+2113","U+2115","U+2119","U+211A","U+211B","U+211C",
   "U+211D","U+2124","U+2126","U+2128","U+212A","U+212B","U+212C","U+212D",
   "U+212F","U+2130","U+2131","U+2132","U+2133","U+2134","U+2139","U+213C",
   "U+213D","U+213E","U+213F","U+2145","U+2146","U+2147","U+2148","U+2149",
   "U+214E","U+2160","U+2161","U+2162","U+2163","U+2164","U+2165","U+2166",
   "U+2167","U+2168","U+2169","U+216A","U+216B","U+216C","U+216D","U+216E",
   "U+216F","U+2170","U+2171","U+2172","U+2173","U+2174","U+2175","U+2176",
   "U+2177","U+2178","U+2179","U+217A","U+217B","U+217C","U+217D","U+217E",
   "U+217F","U+2183","U+2184","U+24B6","U+24B7","U+24B8","U+24B9","U+24BA",
   "U+24BB","U+24BC","U+24BD","U+24BE","U+24BF","U+24C0","U+24C1","U+24C2",
   "U+24C3","U+24C4","U+24C5","U+24C6","U+24C7","U+24C8","U+24C9","U+24CA",
   "U+24CB","U+24CC","U+24CD","U+24CE","U+24CF","U+24D0","U+24D1","U+24D2",
   "U+24D3","U+24D4","U+24D5","U+24D6","U+24D7","U+24D8","U+24D9","U+24DA",
   "U+24DB","U+24DC","U+24DD","U+24DE","U+24DF","U+24E0","U+24E1","U+24E2",
   "U+24E3","U+24E4","U+24E5","U+24E6","U+24E7","U+24E8","U+24E9","U+2C00",
   "U+2C01","U+2C02","U+2C03","U+2C04","U+2C05","U+2C06","U+2C07","U+2C08",
   "U+2C09","U+2C0A","U+2C0B","U+2C0C","U+2C0D","U+2C0E","U+2C0F","U+2C10",
   "U+2C11","U+2C12","U+2C13","U+2C14","U+2C15","U+2C16","U+2C17","U+2C18",
   "U+2C19","U+2C1A","U+2C1B","U+2C1C","U+2C1D","U+2C1E","U+2C1F","U+2C20",
   "U+2C21","U+2C22","U+2C23","U+2C24","U+2C25","U+2C26","U+2C27","U+2C28",
   "U+2C29","U+2C2A","U+2C2B","U+2C2C","U+2C2D","U+2C2E","U+2C2F","U+2C30",
   "U+2C31","U+2C32","U+2C33","U+2C34","U+2C35","U+2C36","U+2C37","U+2C38",
   "U+2C39","U+2C3A","U+2C3B","U+2C3C","U+2C3D","U+2C3E","U+2C3F","U+2C40",
   "U+2C41","U+2C42","U+2C43","U+2C44","U+2C45","U+2C46","U+2C47","U+2C48",
   "U+2C49","U+2C4A","U+2C4B","U+2C4C","U+2C4D","U+2C4E","U+2C4F","U+2C50",
   "U+2C51","U+2C52","U+2C53","U+2C54","U+2C55","U+2C56","U+2C57","U+2C58",
   "U+2C59","U+2C5A","U+2C5B","U+2C5C","U+2C5D","U+2C5E","U+2C5F","U+2C60",
   "U+2C61","U+2C62","U+2C63","U+2C64","U+2C65","U+2C66","U+2C67","U+2C68",
   "U+2C69","U+2C6A","U+2C6B","U+2C6C","U+2C6D","U+2C6E","U+2C6F","U+2C70",
   "U+2C71","U+2C72","U+2C73","U+2C74","U+2C75","U+2C76","U+2C77","U+2C78",
   "U+2C79","U+2C7A","U+2C7B","U+2C7E","U+2C7F","U+2C80","U+2C81","U+2C82",
   "U+2C83","U+2C84","U+2C85","U+2C86","U+2C87","U+2C88","U+2C89","U+2C8A",
   "U+2C8B","U+2C8C","U+2C8D","U+2C8E","U+2C8F","U+2C90","U+2C91","U+2C92",
   "U+2C93","U+2C94","U+2C95","U+2C96","U+2C97","U+2C98","U+2C99","U+2C9A",
   "U+2C9B","U+2C9C","U+2C9D","U+2C9E","U+2C9F","U+2CA0","U+2CA1","U+2CA2",
   "U+2CA3","U+2CA4","U+2CA5","U+2CA6","U+2CA7","U+2CA8","U+2CA9","U+2CAA",
   "U+2CAB","U+2CAC","U+2CAD","U+2CAE","U+2CAF","U+2CB0","U+2CB1","U+2CB2",
   "U+2CB3","U+2CB4","U+2CB5","U+2CB6","U+2CB7","U+2CB8","U+2CB9","U+2CBA",
   "U+2CBB","U+2CBC","U+2CBD","U+2CBE","U+2CBF","U+2CC0","U+2CC1","U+2CC2",
   "U+2CC3","U+2CC4","U+2CC5","U+2CC6","U+2CC7","U+2CC8","U+2CC9","U+2CCA",
   "U+2CCB","U+2CCC","U+2CCD","U+2CCE","U+2CCF","U+2CD0","U+2CD1","U+2CD2",
   "U+2CD3","U+2CD4","U+2CD5","U+2CD6","U+2CD7","U+2CD8","U+2CD9","U+2CDA",
   "U+2CDB","U+2CDC","U+2CDD","U+2CDE","U+2CDF","U+2CE0","U+2CE1","U+2CE2",
   "U+2CE3","U+2CE4","U+2CEB","U+2CEC","U+2CED","U+2CEE","U+2CF2","U+2CF3",
   "U+2D00","U+2D01","U+2D02","U+2D03","U+2D04","U+2D05","U+2D06","U+2D07",
   "U+2D08","U+2D09","U+2D0A","U+2D0B","U+2D0C","U+2D0D","U+2D0E","U+2D0F",
   "U+2D10","U+2D11","U+2D12","U+2D13","U+2D14","U+2D15","U+2D16","U+2D17",
   "U+2D18","U+2D19","U+2D1A","U+2D1B","U+2D1C","U+2D1D","U+2D1E","U+2D1F",
   "U+2D20","U+2D21","U+2D22","U+2D23","U+2D24","U+2D25","U+2D27","U+2D2D",
   "U+A640","U+A641","U+A642","U+A643","U+A644","U+A645","U+A646","U+A647",
   "U+A648","U+A649","U+A64A","U+A64B","U+A64C","U+A64D","U+A64E","U+A64F",
   "U+A650","U+A651","U+A652","U+A653","U+A654","U+A655","U+A656","U+A657",
   "U+A658","U+A659","U+A65A","U+A65B","U+A65C","U+A65D","U+A65E","U+A65F",
   "U+A660","U+A661","U+A662","U+A663","U+A664","U+A665","U+A666","U+A667",
   "U+A668","U+A669","U+A66A","U+A66B","U+A66C","U+A66D","U+A680","U+A681",
   "U+A682","U+A683","U+A684","U+A685","U+A686","U+A687","U+A688","U+A689",
   "U+A68A","U+A68B","U+A68C","U+A68D","U+A68E","U+A68F","U+A690","U+A691",
   "U+A692","U+A693","U+A694","U+A695","U+A696","U+A697","U+A698","U+A699",
   "U+A69A","U+A69B","U+A722","U+A723","U+A724","U+A725","U+A726","U+A727",
   "U+A728","U+A729","U+A72A","U+A72B","U+A72C","U+A72D","U+A72E","U+A72F",
   "U+A730","U+A731","U+A732","U+A733","U+A734","U+A735","U+A736","U+A737",
   "U+A738","U+A739","U+A73A","U+A73B","U+A73C","U+A73D","U+A73E","U+A73F",
   "U+A740","U+A741","U+A742","U+A743","U+A744","U+A745","U+A746","U+A747",
   "U+A748","U+A749","U+A74A","U+A74B","U+A74C","U+A74D","U+A74E","U+A74F",
   "U+A750","U+A751","U+A752","U+A753","U+A754","U+A755","U+A756","U+A757",
   "U+A758","U+A759","U+A75A","U+A75B","U+A75C","U+A75D","U+A75E","U+A75F",
   "U+A760","U+A761","U+A762","U+A763","U+A764","U+A765","U+A766","U+A767",
   "U+A768","U+A769","U+A76A","U+A76B","U+A76C","U+A76D","U+A76E","U+A76F",
   "U+A771","U+A772","U+A773","U+A774","U+A775","U+A776","U+A777","U+A778",
   "U+A779","U+A77A","U+A77B","U+A77C","U+A77D","U+A77E","U+A77F","U+A780",
   "U+A781","U+A782","U+A783","U+A784","U+A785","U+A786","U+A787","U+A78B",
   "U+A78C","U+A78D","U+A78E","U+A790","U+A791","U+A792","U+A793","U+A794",
   "U+A795","U+A796","U+A797","U+A798","U+A799","U+A79A","U+A79B","U+A79C",
   "U+A79D","U+A79E","U+A79F","U+A7A0","U+A7A1","U+A7A2","U+A7A3","U+A7A4",
   "U+A7A5","U+A7A6","U+A7A7","U+A7A8","U+A7A9","U+A7AA","U+A7AB","U+A7AC",
   "U+A7AD","U+A7AE","U+A7AF","U+A7B0","U+A7B1","U+A7B2","U+A7B3","U+A7B4",
   "U+A7B5","U+A7B6","U+A7B7","U+A7B8","U+A7B9","U+A7BA","U+A7BB","U+A7BC",
   "U+A7BD","U+A7BE","U+A7BF","U+A7C0","U+A7C1","U+A7C2","U+A7C3","U+A7C4",
   "U+A7C5","U+A7C6","U+A7C7","U+A7C8","U+A7C9","U+A7CA","U+A7CB","U+A7CC",
   "U+A7CD","U+A7CE","U+A7CF","U+A7D0","U+A7D1","U+A7D2","U+A7D3","U+A7D4",
   "U+A7D5","U+A7D6","U+A7D7","U+A7D8","U+A7D9","U+A7DA","U+A7DB","U+A7DC",
   "U+A7F5","U+A7F6","U+A7FA","U+AB30","U+AB31","U+AB32","U+AB33","U+AB34",
   "U+AB35","U+AB36","U+AB37","U+AB38","U+AB39","U+AB3A","U+AB3B","U+AB3C",
   "U+AB3D","U+AB3E","U+AB3F","U+AB40","U+AB41","U+AB42","U+AB43","U+AB44",
   "U+AB45","U+AB46","U+AB47","U+AB48","U+AB49","U+AB4A","U+AB4B","U+AB4C",
   "U+AB4D","U+AB4E","U+AB4F","U+AB50","U+AB51","U+AB52","U+AB53","U+AB54",
   "U+AB55","U+AB56","U+AB57","U+AB58","U+AB59","U+AB5A","U+AB60","U+AB61",
   "U+AB62","U+AB63","U+AB64","U+AB65","U+AB66","U+AB67","U+AB68","U+AB70",
   "U+AB71","U+AB72","U+AB73","U+AB74","U+AB75","U+AB76","U+AB77","U+AB78",
   "U+AB79","U+AB7A","U+AB7B","U+AB7C","U+AB7D","U+AB7E","U+AB7F","U+AB80",
   "U+AB81","U+AB82","U+AB83","U+AB84","U+AB85","U+AB86","U+AB87","U+AB88",
   "U+AB89","U+AB8A","U+AB8B","U+AB8C","U+AB8D","U+AB8E","U+AB8F","U+AB90",
   "U+AB91","U+AB92","U+AB93","U+AB94","U+AB95","U+AB96","U+AB97","U+AB98",
   "U+AB99","U+AB9A","U+AB9B","U+AB9C","U+AB9D","U+AB9E","U+AB9F","U+ABA0",
   "U+ABA1","U+ABA2","U+ABA3","U+ABA4","U+ABA5","U+ABA6","U+ABA7","U+ABA8",
   "U+ABA9","U+ABAA","U+ABAB","U+ABAC","U+ABAD","U+ABAE","U+ABAF","U+ABB0",
   "U+ABB1","U+ABB2","U+ABB3","U+ABB4","U+ABB5","U+ABB6","U+ABB7","U+ABB8",
   "U+ABB9","U+ABBA","U+ABBB","U+ABBC","U+ABBD","U+ABBE","U+ABBF","U+FB00",
   "U+FB01","U+FB02","U+FB03","U+FB04","U+FB05","U+FB06","U+FB13","U+FB14",
   "U+FB15","U+FB16","U+FB17","U+FF21","U+FF22","U+FF23","U+FF24","U+FF25",
   "U+FF26","U+FF27","U+FF28","U+FF29","U+FF2A","U+FF2B","U+FF2C","U+FF2D",
   "U+FF2E","U+FF2F","U+FF30","U+FF31","U+FF32","U+FF33","U+FF34","U+FF35",
   "U+FF36","U+FF37","U+FF38","U+FF39","U+FF3A","U+FF41","U+FF42","U+FF43",
   "U+FF44","U+FF45","U+FF46","U+FF47","U+FF48","U+FF49","U+FF4A","U+FF4B",
   "U+FF4C","U+FF4D","U+FF4E","U+FF4F","U+FF50","U+FF51","U+FF52","U+FF53",
   "U+FF54","U+FF55","U+FF56","U+FF57","U+FF58","U+FF59","U+FF5A"}

CasedPairs ==
  {<<"U+D801","U+DC00">>,<<"U+D801","U+DC01">>,<<"U+D801","U+DC02">>,
   <<"U+D801","U+DC03">>,<<"U+D801","U+DC04">>,<<"U+D801","U+DC05">>,
   <<"U+D801","U+DC06">>,<<"U+D801","U+DC07">>,<<"U+D801","U+DC08">>,
   <<"U+D801","U+DC09">>,<<"U+D801","U+DC0A">>,<<"U+D801","U+DC0B">>,
   <<"U+D801","U+DC0C">>,<<"U+D801","U+DC0D">>,<<"U+D801","U+DC0E">>,
   <<"U+D801","U+DC0F">>,<<"U+D801","U+DC10">>,<<"U+D801","U+DC11">>,
   <<"U+D801","U+DC12">>,<<"U+D801","U+DC13">>,<<"U+D801","U+DC14">>,
   <<"U+D801","U+DC15">>,<<"U+D801","U+DC16">>,<<"U+D801","U+DC17">>,
   <<"U+D801","U+DC18">>,<<"U+D801","U+DC19">>,<<"U+D801","U+DC1A">>,
   <<"U+D801","U+DC1B">>,<<"U+D801","U+DC1C">>,<<"U+D801","U+DC1D">>,
   <<"U+D801","U+DC1E">>,<<"U+D801","U+DC1F">>,<<"U+D801","U+DC20">>,
   <<"U+D801","U+DC21">>,<<"U+D801","U+DC22">>,<<"U+D801","U+DC23">>,
   <<"U+D801","U+DC24">>,<<"U+D801","U+DC25">>,<<"U+D801","U+DC26">>,
   <<"U+D801","U+DC27">>,<<"U+D801","U+DC28">>,<<"U+D801","U+DC29">>,
   <<"U+D801","U+DC2A">>,<<"U+D801","U+DC2B">>,<<"U+D801","U+DC2C">>,
   <<"U+D801","U+DC2D">>,<<"U+D801","U+DC2E">>,<<"U+D801","U+DC2F">>,
   <<"U+D801","U+DC30">>,<<"U+D801","U+DC31">>,<<"U+D801","U+DC32">>,
   <<"U+D801","U+DC33">>,<<"U+D801","U+DC34">>,<<"U+D801","U+DC35">>,
   <<"U+D801","U+DC36">>,<<"U+D801","U+DC37">>,<<"U+D801","U+DC38">>,
   <<"U+D801","U+DC39">>,<<"U+D801","U+DC3A">>,<<"U+D801","U+DC3B">>,
   <<"U+D801","U+DC3C">>,<<"U+D801","U+DC3D">>,<<"U+D801","U+DC3E">>,
   <<"U+D801","U+DC3F">>,<<"U+D801","U+DC40">>,<<"U+D801","U+DC41">>,
   <<"U+D801","U+DC42">>,<<"U+D801","U+DC43">>,<<"U+D801","U+DC44">>,
   <<"U+D801","U+DC45">>,<<"U+D801","U+DC46">>,<<"U+D801","U+DC47">>,
   <<"U+D801","U+DC48">>,<<"U+D801","U+DC49">>,<<"U+D801","U+DC4A">>,
   <<"U+D801","U+DC4B">>,<<"U+D801","U+DC4C">>,<<"U+D801","U+DC4D">>,
   <<"U+D801","U+DC4E">>,<<"U+D801","U+DC4F">>,<<"U+D801","U+DCB0">>,
   <<"U+D801","U+DCB1">>,<<"U+D801","U+DCB2">>,<<"U+D801","U+DCB3">>,
   <<"U+D801","U+DCB4">>,<<"U+D801","U+DCB5">>,<<"U+D801","U+DCB6">>,
   <<"U+D801","U+DCB7">>,<<"U+D801","U+DCB8">>,<<"U+D801","U+DCB9">>,
   <<"U+D801","U+DCBA">>,<<"U+D801","U+DCBB">>,<<"U+D801","U+DCBC">>,
   <<"U+D801","U+DCBD">>,<<"U+D801","U+DCBE">>,<<"U+D801","U+DCBF">>,
   <<"U+D801","U+DCC0">>,<<"U+D801","U+DCC1">>,<<"U+D801","U+DCC2">>,
   <<"U+D801","U+DCC3">>,<<"U+D801","U+DCC4">>,<<"U+D801","U+DCC5">>,
   <<"U+D801","U+DCC6">>,<<"U+D801","U+DCC7">>,<<"U+D801","U+DCC8">>,
   <<"U+D801","U+DCC9">>,<<"U+D801","U+DCCA">>,<<"U+D801","U+DCCB">>,
   <<"U+D801","U+DCCC">>,<<"U+D801","U+DCCD">>,<<"U+D801","U+DCCE">>,
   <<"U+D801","U+DCCF">>,<<"U+D801","U+DCD0">>,<<"U+D801","U+DCD1">>,
   <<"U+D801","U+DCD2">>,<<"U+D801","U+DCD3">>,<<"U+D801","U+DCD8">>,
   <<"U+D801","U+DCD9">>,<<"U+D801","U+DCDA">>,<<"U+D801","U+DCDB">>,
   <<"U+D801","U+DCDC">>,<<"U+D801","U+DCDD">>,<<"U+D801","U+DCDE">>,
   <<"U+D801","U+DCDF">>,<<"U+D801","U+DCE0">>,<<"U+D801","U+DCE1">>,
   <<"U+D801","U+DCE2">>,<<"U+D801","U+DCE3">>,<<"U+D801","U+DCE4">>,
   <<"U+D801","U+DCE5">>,<<"U+D801","U+DCE6">>,<<"U+D801","U+DCE7">>,
   <<"U+D801","U+DCE8">>,<<"U+D801","U+DCE9">>,<<"U+D801","U+DCEA">>,
   <<"U+D801","U+DCEB">>,<<"U+D801","U+DCEC">>,<<"U+D801","U+DCED">>,
   <<"U+D801","U+DCEE">>,<<"U+D801","U+DCEF">>,<<"U+D801","U+DCF0">>,
   <<"U+D801","U+DCF1">>,<<"U+D801","U+DCF2">>,<<"U+D801","U+DCF3">>,
   <<"U+D801","U+DCF4">>,<<"U+D801","U+DCF5">>,<<"U+D801","U+DCF6">>,
   <<"U+D801","U+DCF7">>,<<"U+D801","U+DCF8">>,<<"U+D801","U+DCF9">>,
   <<"U+D801","U+DCFA">>,<<"U+D801","U+DCFB">>,<<"U+D801","U+DD70">>,
   <<"U+D801","U+DD71">>,<<"U+D801","U+DD72">>,<<"U+D801","U+DD73">>,
   <<"U+D801","U+DD74">>,<<"U+D801","U+DD75">>,<<"U+D801","U+DD76">>,
   <<"U+D801","U+DD77">>,<<"U+D801","U+DD78">>,<<"U+D801","U+DD79">>,
   <<"U+D801","U+DD7A">>,<<"U+D801","U+DD7C">>,<<"U+D801","U+DD7D">>,
   <<"U+D801","U+DD7E">>,<<"U+D801","U+DD7F">>,<<"U+D801","U+DD80">>,
   <<"U+D801","U+DD81">>,<<"U+D801","U+DD82">>,<<"U+D801","U+DD83">>,
   <<"U+D801","U+DD84">>,<<"U+D801","U+DD85">>,<<"U+D801","U+DD86">>,
   <<"U+D801","U+DD87">>,<<"U+D801","U+DD88">>,<<"U+D801","U+DD89">>,
   <<"U+D801","U+DD8A">>,<<"U+D801","U+DD8C">>,<<"U+D801","U+DD8D">>,
   <<"U+D801","U+DD8E">>,<<"U+D801","U+DD8F">>,<<"U+D801","U+DD90">>,
   <<"U+D801","U+DD91">>,<<"U+D801","U+DD92">>,<<"U+D801","U+DD94">>,
   <<"U+D801","U+DD95">>,<<"U+D801","U+DD97">>,<<"U+D801","U+DD98">>,
   <<"U+D801","U+DD99">>,<<"U+D801","U+DD9A">>,<<"U+D801","U+DD9B">>,
   <<"U+D801","U+DD9C">>,<<"U+D801","U+DD9D">>,<<"U+D801","U+DD9E">>,
   <<"U+D801","U+DD9F">>,<<"U+D801","U+DDA0">>,<<"U+D801","U+DDA1">>,
   <<"U+D801","U+DDA3">>,<<"U+D801","U+DDA4">>,<<"U+D801","U+DDA5">>,
   <<"U+D801","U+DDA6">>,<<"U+D801","U+DDA7">>,<<"U+D801","U+DDA8">>,
   <<"U+D801","U+DDA9">>,<<"U+D801","U+DDAA">>,<<"U+D801","U+DDAB">>,
   <<"U+D801","U+DDAC">>,<<"U+D801","U+DDAD">>,<<"U+D801","U+DDAE">>,
   <<"U+D801","U+DDAF">>,<<"U+D801","U+DDB0">>,<<"U+D801","U+DDB1">>,
   <<"U+D801","U+DDB3">>,<<"U+D801","U+DDB4">>,<<"U+D801","U+DDB5">>,
   <<"U+D801","U+DDB6">>,<<"U+D801","U+DDB7">>,<<"U+D801","U+DDB8">>,
   <<"U+D801","U+DDB9">>,<<"U+D801","U+DDBB">>,<<"U+D801","U+DDBC">>,
   <<"U+D803","U+DC80">>,<<"U+D803","U+DC81">>,<<"U+D803","U+DC82">>,
   <<"U+D803","U+DC83">>,<<"U+D803","U+DC84">>,<<"U+D803","U+DC85">>,
   <<"U+D803","U+DC86">>,<<"U+D803","U+DC87">>,<<"U+D803","U+DC88">>,
   <<"U+D803","U+DC89">>,<<"U+D803","U+DC8A">>,<<"U+D803","U+DC8B">>,
   <<"U+D803","U+DC8C">>,<<"U+D803","U+DC8D">>,<<"U+D803","U+DC8E">>,
   <<"U+D803","U+DC8F">>,<<"U+D803","U+DC90">>,<<"U+D803","U+DC91">>,
   <<"U+D803","U+DC92">>,<<"U+D803","U+DC93">>,<<"U+D803","U+DC94">>,
   <<"U+D803","U+DC95">>,<<"U+D803","U+DC96">>,<<"U+D803","U+DC97">>,
   <<"U+D803","U+DC98">>,<<"U+D803","U+DC99">>,<<"U+D803","U+DC9A">>,
   <<"U+D803","U+DC9B">>,<<"U+D803","U+DC9C">>,<<"U+D803","U+DC9D">>,
   <<"U+D803","U+DC9E">>,<<"U+D803","U+DC9F">>,<<"U+D803","U+DCA0">>,
   <<"U+D803","U+DCA1">>,<<"U+D803","U+DCA2">>,<<"U+D803","U+DCA3">>,
   <<"U+D803","U+DCA4">>,<<"U+D803","U+DCA5">>,<<"U+D803","U+DCA6">>,
   <<"U+D803","U+DCA7">>,<<"U+D803","U+DCA8">>,<<"U+D803","U+DCA9">>,
   <<"U+D803","U+DCAA">>,<<"U+D803","U+DCAB">>,<<"U+D803","U+DCAC">>,
   <<"U+D803","U+DCAD">>,<<"U+D803","U+DCAE">>,<<"U+D803","U+DCAF">>,
   <<"U+D803","U+DCB0">>,<<"U+D803","U+DCB1">>,<<"U+D803","U+DCB2">>,
   <<"U+D803","U+DCC0">>,<<"U+D803","U+DCC1">>,<<"U+D803","U+DCC2">>,
   <<"U+D803","U+DCC3">>,<<"U+D803","U+DCC4">>,<<"U+D803","U+DCC5">>,
   <<"U+D803","U+DCC6">>,<<"U+D803","U+DCC7">>,<<"U+D803","U+DCC8">>,
   <<"U+D803","U+DCC9">>,<<"U+D803","U+DCCA">>,<<"U+D803","U+DCCB">>,
   <<"U+D803","U+DCCC">>,<<"U+D803","U+DCCD">>,<<"U+D803","U+DCCE">>,
   <<"U+D803","U+DCCF">>,<<"U+D803","U+DCD0">>,<<"U+D803","U+DCD1">>,
   <<"U+D803","U+DCD2">>,<<"U+D803","U+DCD3">>,<<"U+D803","U+DCD4">>,
   <<"U+D803","U+DCD5">>,<<"U+D803","U+DCD6">>,<<"U+D803","U+DCD7">>,
   <<"U+D803","U+DCD8">>,<<"U+D803","U+DCD9">>,<<"U+D803","U+DCDA">>,
   <<"U+D803","U+DCDB">>,<<"U+D803","U+DCDC">>,<<"U+D803","U+DCDD">>,
   <<"U+D803","U+DCDE">>,<<"U+D803","U+DCDF">>,<<"U+D803","U+DCE0">>,
   <<"U+D803","U+DCE1">>,<<"U+D803","U+DCE2">>,<<"U+D803","U+DCE3">>,
   <<"U+D803","U+DCE4">>,<<"U+D803","U+DCE5">>,<<"U+D803","U+DCE6">>,
   <<"U+D803","U+DCE7">>,<<"U+D803","U+DCE8">>,<<"U+D803","U+DCE9">>,
   <<"U+D803","U+DCEA">>,<<"U+D803","U+DCEB">>,<<"U+D803","U+DCEC">>,
   <<"U+D803","U+DCED">>,<<"U+D803","U+DCEE">>,<<"U+D803","U+DCEF">>,
   <<"U+D803","U+DCF0">>,<<"U+D803","U+DCF1">>,<<"U+D803","U+DCF2">>,
   <<"U+D803","U+DD50">>,<<"U+D803","U+DD51">>,<<"U+D803","U+DD52">>,
   <<"U+D803","U+DD53">>,<<"U+D803","U+DD54">>,<<"U+D803","U+DD55">>,
   <<"U+D803","U+DD56">>,<<"U+D803","U+DD57">>,<<"U+D803","U+DD58">>,
   <<"U+D803","U+DD59">>,<<"U+D803","U+DD5A">>,<<"U+D803","U+DD5B">>,
   <<"U+D803","U+DD5C">>,<<"U+D803","U+DD5D">>,<<"U+D803","U+DD5E">>,
   <<"U+D803","U+DD5F">>,<<"U+D803","U+DD60">>,<<"U+D803","U+DD61">>,
   <<"U+D803","U+DD62">>,<<"U+D803","U+DD63">>,<<"U+D803","U+DD64">>,
   <<"U+D803","U+DD65">>,<<"U+D803","U+DD70">>,<<"U+D803","U+DD71">>,
   <<"U+D803","U+DD72">>,<<"U+D803","U+DD73">>,<<"U+D803","U+DD74">>,
   <<"U+D803","U+DD75">>,<<"U+D803","U+DD76">>,<<"U+D803","U+DD77">>,
   <<"U+D803","U+DD78">>,<<"U+D803","U+DD79">>,<<"U+D803","U+DD7A">>,
   <<"U+D803","U+DD7B">>,<<"U+D803","U+DD7C">>,<<"U+D803","U+DD7D">>,
   <<"U+D803","U+DD7E">>,<<"U+D803","U+DD7F">>,<<"U+D803","U+DD80">>,
   <<"U+D803","U+DD81">>,<<"U+D803","U+DD82">>,<<"U+D803","U+DD83">>,
   <<"U+D803","U+DD84">>,<<"U+D803","U+DD85">>,<<"U+D806","U+DCA0">>,
   <<"U+D806","U+DCA1">>,<<"U+D806","U+DCA2">>,<<"U+D806","U+DCA3">>,
   <<"U+D806","U+DCA4">>,<<"U+D806","U+DCA5">>,<<"U+D806","U+DCA6">>,
   <<"U+D806","U+DCA7">>,<<"U+D806","U+DCA8">>,<<"U+D806","U+DCA9">>,
   <<"U+D806","U+DCAA">>,<<"U+D806","U+DCAB">>,<<"U+D806","U+DCAC">>,
   <<"U+D806","U+DCAD">>,<<"U+D806","U+DCAE">>,<<"U+D806","U+DCAF">>,
   <<"U+D806","U+DCB0">>,<<"U+D806","U+DCB1">>,<<"U+D806","U+DCB2">>,
   <<"U+D806","U+DCB3">>,<<"U+D806","U+DCB4">>,<<"U+D806","U+DCB5">>,
   <<"U+D806","U+DCB6">>,<<"U+D806","U+DCB7">>,<<"U+D806","U+DCB8">>,
   <<"U+D806","U+DCB9">>,<<"U+D806","U+DCBA">>,<<"U+D806","U+DCBB">>,
   <<"U+D806","U+DCBC">>,<<"U+D806","U+DCBD">>,<<"U+D806","U+DCBE">>,
   <<"U+D806","U+DCBF">>,<<"U+D806","U+DCC0">>,<<"U+D806","U+DCC1">>,
   <<"U+D806","U+DCC2">>,<<"U+D806","U+DCC3">>,<<"U+D806","U+DCC4">>,
   <<"U+D806","U+DCC5">>,<<"U+D806","U+DCC6">>,<<"U+D806","U+DCC7">>,
   <<"U+D806","U+DCC8">>,<<"U+D806","U+DCC9">>,<<"U+D806","U+DCCA">>,
   <<"U+D806","U+DCCB">>,<<"U+D806","U+DCCC">>,<<"U+D806","U+DCCD">>,
   <<"U+D806","U+DCCE">>,<<"U+D806","U+DCCF">>,<<"U+D806","U+DCD0">>,
   <<"U+D806","U+DCD1">>,<<"U+D806","U+DCD2">>,<<"U+D806","U+DCD3">>,
   <<"U+D806","U+DCD4">>,<<"U+D806","U+DCD5">>,<<"U+D806","U+DCD6">>,
   <<"U+D806","U+DCD7">>,<<"U+D806","U+DCD8">>,<<"U+D806","U+DCD9">>,
   <<"U+D806","U+DCDA">>,<<"U+D806","U+DCDB">>,<<"U+D806","U+DCDC">>,
   <<"U+D806","U+DCDD">>,<<"U+D806","U+DCDE">>,<<"U+D806","U+DCDF">>,
   <<"U+D81B","U+DE40">>,<<"U+D81B","U+DE41">>,<<"U+D81B","U+DE42">>,
   <<"U+D81B","U+DE43">>,<<"U+D81B","U+DE44">>,<<"U+D81B","U+DE45">>,
   <<"U+D81B","U+DE46">>,<<"U+D81B","U+DE47">>,<<"U+D81B","U+DE48">>,
   <<"U+D81B","U+DE49">>,<<"U+D81B","U+DE4A">>,<<"U+D81B","U+DE4B">>,
   <<"U+D81B","U+DE4C">>,<<"U+D81B","U+DE4D">>,<<"U+D81B","U+DE4E">>,
   <<"U+D81B","U+DE4F">>,<<"U+D81B","U+DE50">>,<<"U+D81B","U+DE51">>,
   <<"U+D81B","U+DE52">>,<<"U+D81B","U+DE53">>,<<"U+D81B","U+DE54">>,
   <<"U+D81B","U+DE55">>,<<"U+D81B","U+DE56">>,<<"U+D81B","U+DE57">>,
   <<"U+D81B","U+DE58">>,<<"U+D81B","U+DE59">>,<<"U+D81B","U+DE5A">>,
   <<"U+D81B","U+DE5B">>,<<"U+D81B","U+DE5C">>,<<"U+D81B","U+DE5D">>,
   <<"U+D81B","U+DE5E">>,<<"U+D81B","U+DE5F">>,<<"U+D81B","U+DE60">>,
   <<"U+D81B","U+DE61">>,<<"U+D81B","U+DE62">>,<<"U+D81B","U+DE63">>,
   <<"U+D81B","U+DE64">>,<<"U+D81B","U+DE65">>,<<"U+D81B","U+DE66">>,
   <<"U+D81B","U+DE67">>,<<"U+D81B","U+DE68">>,<<"U+D81B","U+DE69">>,
   <<"U+D81B","U+DE6A">>,<<"U+D81B","U+DE6B">>,<<"U+D81B","U+DE6C">>,
   <<"U+D81B","U+DE6D">>,<<"U+D81B","U+DE6E">>,<<"U+D81B","U+DE6F">>,
   <<"U+D81B","U+DE70">>,<<"U+D81B","U+DE71">>,<<"U+D81B","U+DE72">>,
   <<"U+D81B","U+DE73">>,<<"U+D81B","U+DE74">>,<<"U+D81B","U+DE75">>,
   <<"U+D81B","U+DE76">>,<<"U+D81B","U+DE77">>,<<"U+D81B","U+DE78">>,
   <<"U+D81B","U+DE79">>,<<"U+D81B","U+DE7A">>,<<"U+D81B","U+DE7B">>,
   <<"U+D81B","U+DE7C">>,<<"U+D81B","U+DE7D">>,<<"U+D81B","U+DE7E">>,
   <<"U+D81B","U+DE7F">>,<<"U+D81B","U+DEA0">>,<<"U+D81B","U+DEA1">>,
   <<"U+D81B","U+DEA2">>,<<"U+D81B","U+DEA3">>,<<"U+D81B","U+DEA4">>,
   <<"U+D81B","U+DEA5">>,<<"U+D81B","U+DEA6">>,<<"U+D81B","U+DEA7">>,
   <<"U+D81B","U+DEA8">>,<<"U+D81B","U+DEA9">>,<<"U+D81B","U+DEAA">>,
   <<"U+D81B","U+DEAB">>,<<"U+D81B","U+DEAC">>,<<"U+D81B","U+DEAD">>,
   <<"U+D81B","U+DEAE">>,<<"U+D81B","U+DEAF">>,<<"U+D81B","U+DEB0">>,
   <<"U+D81B","U+DEB1">>,<<"U+D81B","U+DEB2">>,<<"U+D81B","U+DEB3">>,
   <<"U+D81B","U+DEB4">>,<<"U+D81B","U+DEB5">>,<<"U+D81B","U+DEB6">>,
   <<"U+D81B","U+DEB7">>,<<"U+D81B","U+DEB8">>,<<"U+D81B","U+DEBB">>,
   <<"U+D81B","U+DEBC">>,<<"U+D81B","U+DEBD">>,<<"U+D81B","U+DEBE">>,
   <<"U+D81B","U+DEBF">>,<<"U+D81B","U+DEC0">>,<<"U+D81B","U+DEC1">>,
   <<"U+D81B","U+DEC2">>,<<"U+D81B","U+DEC3">>,<<"U+D81B","U+DEC4">>,
   <<"U+D81B","U+DEC5">>,<<"U+D81B","U+DEC6">>,<<"U+D81B","U+DEC7">>,
   <<"U+D81B","U+DEC8">>,<<"U+D81B","U+DEC9">>,<<"U+D81B","U+DECA">>,
   <<"U+D81B","U+DECB">>,<<"U+D81B","U+DECC">>,<<"U+D81B","U+DECD">>,
   <<"U+D81B","U+DECE">>,<<"U+D81B","U+DECF">>,<<"U+D81B","U+DED0">>,
   <<"U+D81B","U+DED1">>,<<"U+D81B","U+DED2">>,<<"U+D81B","U+DED3">>,
   <<"U+D835","U+DC00">>,<<"U+D835","U+DC01">>,<<"U+D835","U+DC02">>,
   <<"U+D835","U+DC03">>,<<"U+D835","U+DC04">>,<<"U+D835","U+DC05">>,
   <<"U+D835","U+DC06">>,<<"U+D835","U+DC07">>,<<"U+D835","U+DC08">>,
   <<"U+D835","U+DC09">>,<<"U+D835","U+DC0A">>,<<"U+D835","U+DC0B">>,
   <<"U+D835","U+DC0C">>,<<"U+D835","U+DC0D">>,<<"U+D835","U+DC0E">>,
   <<"U+D835","U+DC0F">>,<<"U+D835","U+DC10">>,<<"U+D835","U+DC11">>,
   <<"U+D835","U+DC12">>,<<"U+D835","U+DC13">>,<<"U+D835","U+DC14">>,
   <<"U+D835","U+DC15">>,<<"U+D835","U+DC16">>,<<"U+D835","U+DC17">>,
   <<"U+D835","U+DC18">>,<<"U+D835","U+DC19">>,<<"U+D835","U+DC1A">>,
   <<"U+D835","U+DC1B">>,<<"U+D835","U+DC1C">>,<<"U+D835","U+DC1D">>,
   <<"U+D835","U+DC1E">>,<<"U+D835","U+DC1F">>,<<"U+D835","U+DC20">>,
   <<"U+D835","U+DC21">>,<<"U+D835","U+DC22">>,<<"U+D835","U+DC23">>,
   <<"U+D835","U+DC24">>,<<"U+D835","U+DC25">>,<<"U+D835","U+DC26">>,
   <<"U+D835","U+DC27">>,<<"U+D835","U+DC28">>,<<"U+D835","U+DC29">>,
   <<"U+D835","U+DC2A">>,<<"U+D835","U+DC2B">>,<<"U+D835","U+DC2C">>,
   <<"U+D835","U+DC2D">>,<<"U+D835","U+DC2E">>,<<"U+D835","U+DC2F">>,
   <<"U+D835","U+DC30">>,<<"U+D835","U+DC31">>,<<"U+D835","U+DC32">>,
   <<"U+D835","U+DC33">>,<<"U+D835","U+DC34">>,<<"U+D835","U+DC35">>,
   <<"U+D835","U+DC36">>,<<"U+D835","U+DC37">>,<<"U+D835","U+DC38">>,
   <<"U+D835","U+DC39">>,<<"U+D835","U+DC3A">>,<<"U+D835","U+DC3B">>,
   <<"U+D835","U+DC3C">>,<<"U+D835","U+DC3D">>,<<"U+D835","U+DC3E">>,
   <<"U+D835","U+DC3F">>,<<"U+D835","U+DC40">>,<<"U+D835","U+DC41">>,
   <<"U+D835","U+DC42">>,<<"U+D835","U+DC43">>,<<"U+D835","U+DC44">>,
   <<"U+D835","U+DC45">>,<<"U+D835","U+DC46">>,<<"U+D835","U+DC47">>,
   <<"U+D835","U+DC48">>,<<"U+D835","U+DC49">>,<<"U+D835","U+DC4A">>,
   <<"U+D835","U+DC4B">>,<<"U+D835","U+DC4C">>,<<"U+D835","U+DC4D">>,
   <<"U+D835","U+DC4E">>,<<"U+D835","U+DC4F">>,<<"U+D835","U+DC50">>,
   <<"U+D835","U+DC51">>,<<"U+D835","U+DC52">>,<<"U+D835","U+DC53">>,
   <<"U+D835","U+DC54">>,<<"U+D835","U+DC56">>,<<"U+D835","U+DC57">>,
   <<"U+D835","U+DC58">>,<<"U+D835","U+DC59">>,<<"U+D835","U+DC5A">>,
   <<"U+D835","U+DC5B">>,<<"U+D835","U+DC5C">>,<<"U+D835","U+DC5D">>,
   <<"U+D835","U+DC5E">>,<<"U+D835","U+DC5F">>,<<"U+D835","U+DC60">>,
   <<"U+D835","U+DC61">>,<<"U+D835","U+DC62">>,<<"U+D835","U+DC63">>,
   <<"U+D835","U+DC64">>,<<"U+D835","U+DC65">>,<<"U+D835","U+DC66">>,
   <<"U+D835","U+DC67">>,<<"U+D835","U+DC68">>,<<"U+D835","U+DC69">>,
   <<"U+D835","U+DC6A">>,<<"U+D835","U+DC6B">>,<<"U+D835","U+DC6C">>,
   <<"U+D835","U+DC6D">>,<<"U+D835","U+DC6E">>,<<"U+D835","U+DC6F">>,
   <<"U+D835","U+DC70">>,<<"U+D835","U+DC71">>,<<"U+D835","U+DC72">>,
   <<"U+D835","U+DC73">>,<<"U+D835","U+DC74">>,<<"U+D835","U+DC75">>,
   <<"U+D835","U+DC76">>,<<"U+D835","U+DC77">>,<<"U+D835","U+DC78">>,
   <<"U+D835","U+DC79">>,<<"U+D835","U+DC7A">>,<<"U+D835","U+DC7B">>,
   <<"U+D835","U+DC7C">>,<<"U+D835","U+DC7D">>,<<"U+D835","U+DC7E">>,
   <<"U+D835","U+DC7F">>,<<"U+D835","U+DC80">>,<<"U+D835","U+DC81">>,
   <<"U+D835","U+DC82">>,<<"U+D835","U+DC83">>,<<"U+D835","U+DC84">>,
   <<"U+D835","U+DC85">>,<<"U+D835","U+DC86">>,<<"U+D835","U+DC87">>,
   <<"U+D835","U+DC88">>,<<"U+D835","U+DC89">>,<<"U+D835","U+DC8A">>,
   <<"U+D835","U+DC8B">>,<<"U+D835","U+DC8C">>,<<"U+D835","U+DC8D">>,
   <<"U+D835","U+DC8E">>,<<"U+D835","U+DC8F">>,<<"U+D835","U+DC90">>,
   <<"U+D835","U+DC91">>,<<"U+D835","U+DC92">>,<<"U+D835","U+DC93">>,
   <<"U+D835","U+DC94">>,<<"U+D835","U+DC95">>,<<"U+D835","U+DC96">>,
   <<"U+D835","U+DC97">>,<<"U+D835","U+DC98">>,<<"U+D835","U+DC99">>,
   <<"U+D835","U+DC9A">>,<<"U+D835","U+DC9B">>,<<"U+D835","U+DC9C">>,
   <<"U+D835","U+DC9E">>,<<"U+D835","U+DC9F">>,<<"U+D835","U+DCA2">>,
   <<"U+D835","U+DCA5">>,<<"U+D835","U+DCA6">>,<<"U+D835","U+DCA9">>,
   <<"U+D835","U+DCAA">>,<<"U+D835","U+DCAB">>,<<"U+D835","U+DCAC">>,
   <<"U+D835","U+DCAE">>,<<"U+D835","U+DCAF">>,<<"U+D835","U+DCB0">>,
   <<"U+D835","U+DCB1">>,<<"U+D835","U+DCB2">>,<<"U+D835","U+DCB3">>,
   <<"U+D835","U+DCB4">>,<<"U+D835","U+DCB5">>,<<"U+D835","U+DCB6">>,
   <<"U+D835","U+DCB7">>,<<"U+D835","U+DCB8">>,<<"U+D835","U+DCB9">>,
   <<"U+D835","U+DCBB">>,<<"U+D835","U+DCBD">>,<<"U+D835","U+DCBE">>,
   <<"U+D835","U+DCBF">>,<<"U+D835","U+DCC0">>,<<"U+D835","U+DCC1">>,
   <<"U+D835","U+DCC2">>,<<"U+D835","U+DCC3">>,<<"U+D835","U+DCC5">>,
   <<"U+D835","U+DCC6">>,<<"U+D835","U+DCC7">>,<<"U+D835","U+DCC8">>,
   <<"U+D835","U+DCC9">>,<<"U+D835","U+DCCA">>,<<"U+D835","U+DCCB">>,
   <<"U+D835","U+DCCC">>,<<"U+D835","U+DCCD">>,<<"U+D835","U+DCCE">>,
   <<"U+D835","U+DCCF">>,<<"U+D835","U+DCD0">>,<<"U+D835","U+DCD1">>,
   <<"U+D835","U+DCD2">>,<<"U+D835","U+DCD3">>,<<"U+D835","U+DCD4">>,
   <<"U+D835","U+DCD5">>,<<"U+D835","U+DCD6">>,<<"U+D835","U+DCD7">>,
   <<"U+D835","U+DCD8">>,<<"U+D835","U+DCD9">>,<<"U+D835","U+DCDA">>,
   <<"U+D835","U+DCDB">>,<<"U+D835","U+DCDC">>,<<"U+D835","U+DCDD">>,
   <<"U+D835","U+DCDE">>,<<"U+D835","U+DCDF">>,<<"U+D835","U+DCE0">>,
   <<"U+D835","U+DCE1">>,<<"U+D835","U+DCE2">>,<<"U+D835","U+DCE3">>,
   <<"U+D835","U+DCE4">>,<<"U+D835","U+DCE5">>,<<"U+D835","U+DCE6">>,
   <<"U+D835","U+DCE7">>,<<"U+D835","U+DCE8">>,<<"U+D835","U+DCE9">>,
   <<"U+D835","U+DCEA">>,<<"U+D835","U+DCEB">>,<<"U+D835","U+DCEC">>,
   <<"U+D835","U+DCED">>,<<"U+D835","U+DCEE">>,<<"U+D835","U+DCEF">>,
   <<"U+D835","U+DCF0">>,<<"U+D835","U+DCF1">>,<<"U+D835","U+DCF2">>,
   <<"U+D835","U+DCF3">>,<<"U+D835","U+DCF4">>,<<"U+D835","U+DCF5">>,
   <<"U+D835","U+DCF6">>,<<"U+D835","U+DCF7">>,<<"U+D835","U+DCF8">>,
   <<"U+D835","U+DCF9">>,<<"U+D835","U+DCFA">>,<<"U+D835","U+DCFB">>,
   <<"U+D835","U+DCFC">>,<<"U+D835","U+DCFD">>,<<"U+D835","U+DCFE">>,
   <<"U+D835","U+DCFF">>,<<"U+D835","U+DD00">>,<<"U+D835","U+DD01">>,
   <<"U+D835","U+DD02">>,<<"U+D835","U+DD03">>,<<"U+D835","U+DD04">>,
   <<"U+D835","U+DD05">>,<<"U+D835","U+DD07">>,<<"U+D835","U+DD08">>,
   <<"U+D835","U+DD09">>,<<"U+D835","U+DD0A">>,<<"U+D835","U+DD0D">>,
   <<"U+D835","U+DD0E">>,<<"U+D835","U+DD0F">>,<<"U+D835","U+DD10">>,
   <<"U+D835","U+DD11">>,<<"U+D835","U+DD12">>,<<"U+D835","U+DD13">>,
   <<"U+D835","U+DD14">>,<<"U+D835","U+DD16">>,<<"U+D835","U+DD17">>,
   <<"U+D835","U+DD18">>,<<"U+D835","U+DD19">>,<<"U+D835","U+DD1A">>,
   <<"U+D835","U+DD1B">>,<<"U+D835","U+DD1C">>,<<"U+D835","U+DD1E">>,
   <<"U+D835","U+DD1F">>,<<"U+D835","U+DD20">>,<<"U+D835","U+DD21">>,
   <<"U+D835","U+DD22">>,<<"U+D835","U+DD23">>,<<"U+D835","U+DD24">>,
   <<"U+D835","U+DD25">>,<<"U+D835","U+DD26">>,<<"U+D835","U+DD27">>,
   <<"U+D835","U+DD28">>,<<"U+D835","U+DD29">>,<<"U+D835","U+DD2A">>,
   <<"U+D835","U+DD2B">>,<<"U+D835","U+DD2C">>,<<"U+D835","U+DD2D">>,
   <<"U+D835","U+DD2E">>,<<"U+D835","U+DD2F">>,<<"U+D835","U+DD30">>,
   <<"U+D835","U+DD31">>,<<"U+D835","U+DD32">>,<<"U+D835","U+DD33">>,
   <<"U+D835","U+DD34">>,<<"U+D835","U+DD35">>,<<"U+D835","U+DD36">>,
   <<"U+D835","U+DD37">>,<<"U+D835","U+DD38">>,<<"U+D835","U+DD39">>,
   <<"U+D835","U+DD3B">>,<<"U+D835","U+DD3C">>,<<"U+D835","U+DD3D">>,
   <<"U+D835","U+DD3E">>,<<"U+D835","U+DD40">>,<<"U+D835","U+DD41">>,
   <<"U+D835","U+DD42">>,<<"U+D835","U+DD43">>,<<"U+D835","U+DD44">>,
   <<"U+D835","U+DD46">>,<<"U+D835","U+DD4A">>,<<"U+D835","U+DD4B">>,
   <<"U+D835","U+DD4C">>,<<"U+D835","U+DD4D">>,<<"U+D835","U+DD4E">>,
   <<"U+D835","U+DD4F">>,<<"U+D835","U+DD50">>,<<"U+D835","U+DD52">>,
   <<"U+D835","U+DD53">>,<<"U+D835","U+DD54">>,<<"U+D835","U+DD55">>,
   <<"U+D835","U+DD56">>,<<"U+D835","U+DD57">>,<<"U+D835","U+DD58">>,
   <<"U+D835","U+DD59">>,<<"U+D835","U+DD5A">>,<<"U+D835","U+DD5B">>,
   <<"U+D835","U+DD5C">>,<<"U+D835","U+DD5D">>,<<"U+D835","U+DD5E">>,
   <<"U+D835","U+DD5F">>,<<"U+D835","U+DD60">>,<<"U+D835","U+DD61">>,
   <<"U+D835","U+DD62">>,<<"U+D835","U+DD63">>,<<"U+D835","U+DD64">>,
   <<"U+D835","U+DD65">>,<<"U+D835","U+DD66">>,<<"U+D835","U+DD67">>,
   <<"U+D835","U+DD68">>,<<"U+D835","U+DD69">>,<<"U+D835","U+DD6A">>,
   <<"U+D835","U+DD6B">>,<<"U+D835","U+DD6C">>,<<"U+D835","U+DD6D">>,
   <<"U+D835","U+DD6E">>,<<"U+D835","U+DD6F">>,<<"U+D835","U+DD70">>,
   <<"U+D835","U+DD71">>,<<"U+D835","U+DD72">>,<<"U+D835","U+DD73">>,
   <<"U+D835","U+DD74">>,<<"U+D835","U+DD75">>,<<"U+D835","U+DD76">>,
   <<"U+D835","U+DD77">>,<<"U+D835","U+DD78">>,<<"U+D835","U+DD79">>,
   <<"U+D835","U+DD7A">>,<<"U+D835","U+DD7B">>,<<"U+D835","U+DD7C">>,
   <<"U+D835","U+DD7D">>,<<"U+D835","U+DD7E">>,<<"U+D835","U+DD7F">>,
   <<"U+D835","U+DD80">>,<<"U+D835","U+DD81">>,<<"U+D835","U+DD82">>,
   <<"U+D835","U+DD83">>,<<"U+D835","U+DD84">>,<<"U+D835","U+DD85">>,
   <<"U+D835","U+DD86">>,<<"U+D835","U+DD87">>,<<"U+D835","U+DD88">>,
   <<"U+D835","U+DD89">>,<<"U+D835","U+DD8A">>,<<"U+D835","U+DD8B">>,
   <<"U+D835","U+DD8C">>,<<"U+D835","U+DD8D">>,<<"U+D835","U+DD8E">>,
   <<"U+D835","U+DD8F">>,<<"U+D835","U+DD90">>,<<"U+D835","U+DD91">>,
   <<"U+D835","U+DD92">>,<<"U+D835","U+DD93">>,<<"U+D835","U+DD94">>,
   <<"U+D835","U+DD95">>,<<"U+D835","U+DD96">>,<<"U+D835","U+DD97">>,
   <<"U+D835","U+DD98">>,<<"U+D835","U+DD99">>,<<"U+D835","U+DD9A">>,
   <<"U+D835","U+DD9B">>,<<"U+D835","U+DD9C">>,<<"U+D835","U+DD9D">>,
   <<"U+D835","U+DD9E">>,<<"U+D835","U+DD9F">>,<<"U+D835","U+DDA0">>,
   <<"U+D835","U+DDA1">>,<<"U+D835","U+DDA2">>,<<"U+D835","U+DDA3">>,
   <<"U+D835","U+DDA4">>,<<"U+D835","U+DDA5">>,<<"U+D835","U+DDA6">>,
   <<"U+D835","U+DDA7">>,<<"U+D835","U+DDA8">>,<<"U+D835","U+DDA9">>,
   <<"U+D835","U+DDAA">>,<<"U+D835","U+DDAB">>,<<"U+D835","U+DDAC">>,
   <<"U+D835","U+DDAD">>,<<"U+D835","U+DDAE">>,<<"U+D835","U+DDAF">>,
   <<"U+D835","U+DDB0">>,<<"U+D835","U+DDB1">>,<<"U+D835","U+DDB2">>,
   <<"U+D835","U+DDB3">>,<<"U+D835","U+DDB4">>,<<"U+D835","U+DDB5">>,
   <<"U+D835","U+DDB6">>,<<"U+D835","U+DDB7">>,<<"U+D835","U+DDB8">>,
   <<"U+D835","U+DDB9">>,<<"U+D835","U+DDBA">>,<<"U+D835","U+DDBB">>,
   <<"U+D835","U+DDBC">>,<<"U+D835","U+DDBD">>,<<"U+D835","U+DDBE">>,
   <<"U+D835","U+DDBF">>,<<"U+D835","U+DDC0">>,<<"U+D835","U+DDC1">>,
   <<"U+D835","U+DDC2">>,<<"U+D835","U+DDC3">>,<<"U+D835","U+DDC4">>,
   <<"U+D835","U+DDC5">>,<<"U+D835","U+DDC6">>,<<"U+D835","U+DDC7">>,
   <<"U+D835","U+DDC8">>,<<"U+D835","U+DDC9">>,<<"U+D835","U+DDCA">>,
   <<"U+D835","U+DDCB">>,<<"U+D835","U+DDCC">>,<<"U+D835","U+DDCD">>,
   <<"U+D835","U+DDCE">>,<<"U+D835","U+DDCF">>,<<"U+D835","U+DDD0">>,
   <<"U+D835","U+DDD1">>,<<"U+D835","U+DDD2">>,<<"U+D835","U+DDD3">>,
   <<"U+D835","U+DDD4">>,<<"U+D835","U+DDD5">>,<<"U+D835","U+DDD6">>,
   <<"U+D835","U+DDD7">>,<<"U+D835","U+DDD8">>,<<"U+D835","U+DDD9">>,
   <<"U+D835","U+DDDA">>,<<"U+D835","U+DDDB">>,<<"U+D835","U+DDDC">>,
   <<"U+D835","U+DDDD">>,<<"U+D835","U+DDDE">>,<<"U+D835","U+DDDF">>,
   <<"U+D835","U+DDE0">>,<<"U+D835","U+DDE1">>,<<"U+D835","U+DDE2">>,
   <<"U+D835","U+DDE3">>,<<"U+D835","U+DDE4">>,<<"U+D835","U+DDE5">>,
   <<"U+D835","U+DDE6">>,<<"U+D835","U+DDE7">>,<<"U+D835","U+DDE8">>,
   <<"U+D835","U+DDE9">>,<<"U+D835","U+DDEA">>,<<"U+D835","U+DDEB">>,
   <<"U+D835","U+DDEC">>,<<"U+D835","U+DDED">>,<<"U+D835","U+DDEE">>,
   <<"U+D835","U+DDEF">>,<<"U+D835","U+DDF0">>,<<"U+D835","U+DDF1">>,
   <<"U+D835","U+DDF2">>,<<"U+D835","U+DDF3">>,<<"U+D835","U+DDF4">>,
   <<"U+D835","U+DDF5">>,<<"U+D835","U+DDF6">>,<<"U+D835","U+DDF7">>,
   <<"U+D835","U+DDF8">>,<<"U+D835","U+DDF9">>,<<"U+D835","U+DDFA">>,
   <<"U+D835","U+DDFB">>,<<"U+D835","U+DDFC">>,<<"U+D835","U+DDFD">>,
   <<"U+D835","U+DDFE">>,<<"U+D835","U+DDFF">>,<<"U+D835","U+DE00">>,
   <<"U+D835","U+DE01">>,<<"U+D835","U+DE02">>,<<"U+D835","U+DE03">>,
   <<"U+D835","U+DE04">>,<<"U+D835","U+DE05">>,<<"U+D835","U+DE06">>,
   <<"U+D835","U+DE07">>,<<"U+D835","U+DE08">>,<<"U+D835","U+DE09">>,
   <<"U+D835","U+DE0A">>,<<"U+D835","U+DE0B">>,<<"U+D835","U+DE0C">>,
   <<"U+D835","U+DE0D">>,<<"U+D835","U+DE0E">>,<<"U+D835","U+DE0F">>,
   <<"U+D835","U+DE10">>,<<"U+D835","U+DE11">>,<<"U+D835","U+DE12">>,
   <<"U+D835","U+DE13">>,<<"U+D835","U+DE14">>,<<"U+D835","U+DE15">>,
   <<"U+D835","U+DE16">>,<<"U+D835","U+DE17">>,<<"U+D835","U+DE18">>,
   <<"U+D835","U+DE19">>,<<"U+D835","U+DE1A">>,<<"U+D835","U+DE1B">>,
   <<"U+D835","U+DE1C">>,<<"U+D835","U+DE1D">>,<<"U+D835","U+DE1E">>,
   <<"U+D835","U+DE1F">>,<<"U+D835","U+DE20">>,<<"U+D835","U+DE21">>,
   <<"U+D835","U+DE22">>,<<"U+D835","U+DE23">>,<<"U+D835","U+DE24">>,
   <<"U+D835","U+DE25">>,<<"U+D835","U+DE26">>,<<"U+D835","U+DE27">>,
   <<"U+D835","U+DE28">>,<<"U+D835","U+DE29">>,<<"U+D835","U+DE2A">>,
   <<"U+D835","U+DE2B">>,<<"U+D835","U+DE2C">>,<<"U+D835","U+DE2D">>,
   <<"U+D835","U+DE2E">>,<<"U+D835","U+DE2F">>,<<"U+D835","U+DE30">>,
   <<"U+D835","U+DE31">>,<<"U+D835","U+DE32">>,<<"U+D835","U+DE33">>,
   <<"U+D835","U+DE34">>,<<"U+D835","U+DE35">>,<<"U+D835","U+DE36">>,
   <<"U+D835","U+DE37">>,<<"U+D835","U+DE38">>,<<"U+D835","U+DE39">>,
   <<"U+D835","U+DE3A">>,<<"U+D835","U+DE3B">>,<<"U+D835","U+DE3C">>,
   <<"U+D835","U+DE3D">>,<<"U+D835","U+DE3E">>,<<"U+D835","U+DE3F">>,
   <<"U+D835","U+DE40">>,<<"U+D835","U+DE41">>,<<"U+D835","U+DE42">>,
   <<"U+D835","U+DE43">>,<<"U+D835","U+DE44">>,<<"U+D835","U+DE45">>,
   <<"U+D835","U+DE46">>,<<"U+D835","U+DE47">>,<<"U+D835","U+DE48">>,
   <<"U+D835","U+DE49">>,<<"U+D835","U+DE4A">>,<<"U+D835","U+DE4B">>,
   <<"U+D835","U+DE4C">>,<<"U+D835","U+DE4D">>,<<"U+D835","U+DE4E">>,
   <<"U+D835","U+DE4F">>,<<"U+D835","U+DE50">>,<<"U+D835","U+DE51">>,
   <<"U+D835","U+DE52">>,<<"U+D835","U+DE53">>,<<"U+D835","U+DE54">>,
   <<"U+D835","U+DE55">>,<<"U+D835","U+DE56">>,<<"U+D835","U+DE57">>,
   <<"U+D835","U+DE58">>,<<"U+D835","U+DE59">>,<<"U+D835","U+DE5A">>,
   <<"U+D835","U+DE5B">>,<<"U+D835","U+DE5C">>,<<"U+D835","U+DE5D">>,
   <<"U+D835","U+DE5E">>,<<"U+D835","U+DE5F">>,<<"U+D835","U+DE60">>,
   <<"U+D835","U+DE61">>,<<"U+D835","U+DE62">>,<<"U+D835","U+DE63">>,
   <<"U+D835","U+DE64">>,<<"U+D835","U+DE65">>,<<"U+D835","U+DE66">>,
   <<"U+D835","U+DE67">>,<<"U+D835","U+DE68">>,<<"U+D835","U+DE69">>,
   <<"U+D835","U+DE6A">>,<<"U+D835","U+DE6B">>,<<"U+D835","U+DE6C">>,
   <<"U+D835","U+DE6D">>,<<"U+D835","U+DE6E">>,<<"U+D835","U+DE6F">>,
   <<"U+D835","U+DE70">>,<<"U+D835","U+DE71">>,<<"U+D835","U+DE72">>,
   <<"U+D835","U+DE73">>,<<"U+D835","U+DE74">>,<<"U+D835","U+DE75">>,
   <<"U+D835","U+DE76">>,<<"U+D835","U+DE77">>,<<"U+D835","U+DE78">>,
   <<"U+D835","U+DE79">>,<<"U+D835","U+DE7A">>,<<"U+D835","U+DE7B">>,
   <<"U+D835","U+DE7C">>,<<"U+D835","U+DE7D">>,<<"U+D835","U+DE7E">>,
   <<"U+D835","U+DE7F">>,<<"U+D835","U+DE80">>,<<"U+D835","U+DE81">>,
   <<"U+D835","U+DE82">>,<<"U+D835","U+DE83">>,<<"U+D835","U+DE84">>,
   <<"U+D835","U+DE85">>,<<"U+D835","U+DE86">>,<<"U+D835","U+DE87">>,
   <<"U+D835","U+DE88">>,<<"U+D835","U+DE89">>,<<"U+D835","U+DE8A">>,
   <<"U+D835","U+DE8B">>,<<"U+D835","U+DE8C">>,<<"U+D835","U+DE8D">>,
   <<"U+D835","U+DE8E">>,<<"U+D835","U+DE8F">>,<<"U+D835","U+DE90">>,
   <<"U+D835","U+DE91">>,<<"U+D835","U+DE92">>,<<"U+D835","U+DE93">>,
   <<"U+D835","U+DE94">>,<<"U+D835","U+DE95">>,<<"U+D835","U+DE96">>,
   <<"U+D835","U+DE97">>,<<"U+D835","U+DE98">>,<<"U+D835","U+DE99">>,
   <<"U+D835","U+DE9A">>,<<"U+D835","U+DE9B">>,<<"U+D835","U+DE9C">>,
   <<"U+D835","U+DE9D">>,<<"U+D835","U+DE9E">>,<<"U+D835","U+DE9F">>,
   <<"U+D835","U+DEA0">>,<<"U+D835","U+DEA1">>,<<"U+D835","U+DEA2">>,
   <<"U+D835","U+DEA3">>,<<"U+D835","U+DEA4">>,<<"U+D835","U+DEA5">>,
   <<"U+D835","U+DEA8">>,<<"U+D835","U+DEA9">>,<<"U+D835","U+DEAA">>,
   <<"U+D835","U+DEAB">>,<<"U+D835","U+DEAC">>,<<"U+D835","U+DEAD">>,
   <<"U+D835","U+DEAE">>,<<"U+D835","U+DEAF">>,<<"U+D835","U+DEB0">>,
   <<"U+D835","U+DEB1">>,<<"U+D835","U+DEB2">>,<<"U+D835","U+DEB3">>,
   <<"U+D835","U+DEB4">>,<<"U+D835","U+DEB5">>,<<"U+D835","U+DEB6">>,
   <<"U+D835","U+DEB7">>,<<"U+D835","U+DEB8">>,<<"U+D835","U+DEB9">>,
   <<"U+D835","U+DEBA">>,<<"U+D835","U+DEBB">>,<<"U+D835","U+DEBC">>,
   <<"U+D835","U+DEBD">>,<<"U+D835","U+DEBE">>,<<"U+D835","U+DEBF">>,
   <<"U+D835","U+DEC0">>,<<"U+D835","U+DEC2">>,<<"U+D835","U+DEC3">>,
   <<"U+D835","U+DEC4">>,<<"U+D835","U+DEC5">>,<<"U+D835","U+DEC6">>,
   <<"U+D835","U+DEC7">>,<<"U+D835","U+DEC8">>,<<"U+D835","U+DEC9">>,
   <<"U+D835","U+DECA">>,<<"U+D835","U+DECB">>,<<"U+D835","U+DECC">>,
   <<"U+D835","U+DECD">>,<<"U+D835","U+DECE">>,<<"U+D835","U+DECF">>,
   <<"U+D835","U+DED0">>,<<"U+D835","U+DED1">>,<<"U+D835","U+DED2">>,
   <<"U+D835","U+DED3">>,<<"U+D835","U+DED4">>,<<"U+D835","U+DED5">>,
   <<"U+D835","U+DED6">>,<<"U+D835","U+DED7">>,<<"U+D835","U+DED8">>,
   <<"U+D835","U+DED9">>,<<"U+D835","U+DEDA">>,<<"U+D835","U+DEDC">>,
   <<"U+D835","U+DEDD">>,<<"U+D835","U+DEDE">>,<<"U+D835","U+DEDF">>,
   <<"U+D835","U+DEE0">>,<<"U+D835","U+DEE1">>,<<"U+D835","U+DEE2">>,
   <<"U+D835","U+DEE3">>,<<"U+D835","U+DEE4">>,<<"U+D835","U+DEE5">>,
   <<"U+D835","U+DEE6">>,<<"U+D835","U+DEE7">>,<<"U+D835","U+DEE8">>,
   <<"U+D835","U+DEE9">>,<<"U+D835","U+DEEA">>,<<"U+D835","U+DEEB">>,
   <<"U+D835","U+DEEC">>,<<"U+D835","U+DEED">>,<<"U+D835","U+DEEE">>,
   <<"U+D835","U+DEEF">>,<<"U+D835","U+DEF0">>,<<"U+D835","U+DEF1">>,
   <<"U+D835","U+DEF2">>,<<"U+D835","U+DEF3">>,<<"U+D835","U+DEF4">>,
   <<"U+D835","U+DEF5">>,<<"U+D835","U+DEF6">>,<<"U+D835","U+DEF7">>,
   <<"U+D835","U+DEF8">>,<<"U+D835","U+DEF9">>,<<"U+D835","U+DEFA">>,
   <<"U+D835","U+DEFC">>,<<"U+D835","U+DEFD">>,<<"U+D835","U+DEFE">>,
   <<"U+D835","U+DEFF">>,<<"U+D835","U+DF00">>,<<"U+D835","U+DF01">>,
   <<"U+D835","U+DF02">>,<<"U+D835","U+DF03">>,<<"U+D835","U+DF04">>,
   <<"U+D835","U+DF05">>,<<"U+D835","U+DF06">>,<<"U+D835","U+DF07">>,
   <<"U+D835","U+DF08">>,<<"U+D835","U+DF09">>,<<"U+D835","U+DF0A">>,
   <<"U+D835","U+DF0B">>,<<"U+D835","U+DF0C">>,<<"U+D835","U+DF0D">>,
   <<"U+D835","U+DF0E">>,<<"U+D835","U+DF0F">>,<<"U+D835","U+DF10">>,
   <<"U+D835","U+DF11">>,<<"U+D835","U+DF12">>,<<"U+D835","U+DF13">>,
   <<"U+D835","U+DF14">>,<<"U+D835","U+DF16">>,<<"U+D835","U+DF17">>,
   <<"U+D835","U+DF18">>,<<"U+D835","U+DF19">>,<<"U+D835","U+DF1A">>,
   <<"U+D835","U+DF1B">>,<<"U+D835","U+DF1C">>,<<"U+D835","U+DF1D">>,
   <<"U+D835","U+DF1E">>,<<"U+D835","U+DF1F">>,<<"U+D835","U+DF20">>,
   <<"U+D835","U+DF21">>,<<"U+D835","U+DF22">>,<<"U+D835","U+DF23">>,
   <<"U+D835","U+DF24">>,<<"U+D835","U+DF25">>,<<"U+D835","U+DF26">>,
   <<"U+D835","U+DF27">>,<<"U+D835","U+DF28">>,<<"U+D835","U+DF29">>,
   <<"U+D835","U+DF2A">>,<<"U+D835","U+DF2B">>,<<"U+D835","U+DF2C">>,
   <<"U+D835","U+DF2D">>,<<"U+D835","U+DF2E">>,<<"U+D835","U+DF2F">>,
   <<"U+D835","U+DF30">>,<<"U+D835","U+DF31">>,<<"U+D835","U+DF32">>,
   <<"U+D835","U+DF33">>,<<"U+D835","U+DF34">>,<<"U+D835","U+DF36">>,
   <<"U+D835","U+DF37">>,<<"U+D835","U+DF38">>,<<"U+D835","U+DF39">>,
   <<"U+D835","U+DF3A">>,<<"U+D835","U+DF3B">>,<<"U+D835","U+DF3C">>,
   <<"U+D835","U+DF3D">>,<<"U+D835","U+DF3E">>,<<"U+D835","U+DF3F">>,
   <<"U+D835","U+DF40">>,<<"U+D835","U+DF41">>,<<"U+D835","U+DF42">>,
   <<"U+D835","U+DF43">>,<<"U+D835","U+DF44">>,<<"U+D835","U+DF45">>,
   <<"U+D835","U+DF46">>,<<"U+D835","U+DF47">>,<<"U+D835","U+DF48">>,
   <<"U+D835","U+DF49">>,<<"U+D835","U+DF4A">>,<<"U+D835","U+DF4B">>,
   <<"U+D835","U+DF4C">>,<<"U+D835","U+DF4D">>,<<"U+D835","U+DF4E">>,
   <<"U+D835","U+DF50">>,<<"U+D835","U+DF51">>,<<"U+D835","U+DF52">>,
   <<"U+D835","U+DF53">>,<<"U+D835","U+DF54">>,<<"U+D835","U+DF55">>,
   <<"U+D835","U+DF56">>,<<"U+D835","U+DF57">>,<<"U+D835","U+DF58">>,
   <<"U+D835","U+DF59">>,<<"U+D835","U+DF5A">>,<<"U+D835","U+DF5B">>,
   <<"U+D835","U+DF5C">>,<<"U+D835","U+DF5D">>,<<"U+D835","U+DF5E">>,
   <<"U+D835","U+DF5F">>,<<"U+D835","U+DF60">>,<<"U+D835","U+DF61">>,
   <<"U+D835","U+DF62">>,<<"U+D835","U+DF63">>,<<"U+D835","U+DF64">>,
   <<"U+D835","U+DF65">>,<<"U+D835","U+DF66">>,<<"U+D835","U+DF67">>,
   <<"U+D835","U+DF68">>,<<"U+D835","U+DF69">>,<<"U+D835","U+DF6A">>,
   <<"U+D835","U+DF6B">>,<<"U+D835","U+DF6C">>,<<"U+D835","U+DF6D">>,
   <<"U+D835","U+DF6E">>,<<"U+D835","U+DF70">>,<<"U+D835","U+DF71">>,
   <<"U+D835","U+DF72">>,<<"U+D835","U+DF73">>,<<"U+D835","U+DF74">>,
   <<"U+D835","U+DF75">>,<<"U+D835","U+DF76">>,<<"U+D835","U+DF77">>,
   <<"U+D835","U+DF78">>,<<"U+D835","U+DF79">>,<<"U+D835","U+DF7A">>,
   <<"U+D835","U+DF7B">>,<<"U+D835","U+DF7C">>,<<"U+D835","U+DF7D">>,
   <<"U+D835","U+DF7E">>,<<"U+D835","U+DF7F">>,<<"U+D835","U+DF80">>,
   <<"U+D835","U+DF81">>,<<"U+D835","U+DF82">>,<<"U+D835","U+DF83">>,
   <<"U+D835","U+DF84">>,<<"U+D835","U+DF85">>,<<"U+D835","U+DF86">>,
   <<"U+D835","U+DF87">>,<<"U+D835","U+DF88">>,<<"U+D835","U+DF8A">>,
   <<"U+D835","U+DF8B">>,<<"U+D835","U+DF8C">>,<<"U+D835","U+DF8D">>,
   <<"U+D835","U+DF8E">>,<<"U+D835","U+DF8F">>,<<"U+D835","U+DF90">>,
   <<"U+D835","U+DF91">>,<<"U+D835","U+DF92">>,<<"U+D835","U+DF93">>,
   <<"U+D835","U+DF94">>,<<"U+D835","U+DF95">>,<<"U+D835","U+DF96">>,
   <<"U+D835","U+DF97">>,<<"U+D835","U+DF98">>,<<"U+D835","U+DF99">>,
   <<"U+D835","U+DF9A">>,<<"U+D835","U+DF9B">>,<<"U+D835","U+DF9C">>,
   <<"U+D835","U+DF9D">>,<<"U+D835","U+DF9E">>,<<"U+D835","U+DF9F">>,
   <<"U+D835","U+DFA0">>,<<"U+D835","U+DFA1">>,<<"U+D835","U+DFA2">>,
   <<"U+D835","U+DFA3">>,<<"U+D835","U+DFA4">>,<<"U+D835","U+DFA5">>,
   <<"U+D835","U+DFA6">>,<<"U+D835","U+DFA7">>,<<"U+D835","U+DFA8">>,
   <<"U+D835","U+DFAA">>,<<"U+D835","U+DFAB">>,<<"U+D835","U+DFAC">>,
   <<"U+D835","U+DFAD">>,<<"U+D835","U+DFAE">>,<<"U+D835","U+DFAF">>,
   <<"U+D835","U+DFB0">>,<<"U+D835","U+DFB1">>,<<"U+D835","U+DFB2">>,
   <<"U+D835","U+DFB3">>,<<"U+D835","U+DFB4">>,<<"U+D835","U+DFB5">>,
   <<"U+D835","U+DFB6">>,<<"U+D835","U+DFB7">>,<<"U+D835","U+DFB8">>,
   <<"U+D835","U+DFB9">>,<<"U+D835","U+DFBA">>,<<"U+D835","U+DFBB">>,
   <<"U+D835","U+DFBC">>,<<"U+D835","U+DFBD">>,<<"U+D835","U+DFBE">>,
   <<"U+D835","U+DFBF">>,<<"U+D835","U+DFC0">>,<<"U+D835","U+DFC1">>,
   <<"U+D835","U+DFC2">>,<<"U+D835","U+DFC4">>,<<"U+D835","U+DFC5">>,
   <<"U+D835","U+DFC6">>,<<"U+D835","U+DFC7">>,<<"U+D835","U+DFC8">>,
   <<"U+D835","U+DFC9">>,<<"U+D835","U+DFCA">>,<<"U+D835","U+DFCB">>,
   <<"U+D837","U+DF00">>,<<"U+D837","U+DF01">>,<<"U+D837","U+DF02">>,
   <<"U+D837","U+DF03">>,<<"U+D837","U+DF04">>,<<"U+D837","U+DF05">>,
   <<"U+D837","U+DF06">>,<<"U+D837","U+DF07">>,<<"U+D837","U+DF08">>,
   <<"U+D837","U+DF09">>,<<"U+D837","U+DF0B">>,<<"U+D837","U+DF0C">>,
   <<"U+D837","U+DF0D">>,<<"U+D837","U+DF0E">>,<<"U+D837","U+DF0F">>,
   <<"U+D837","U+DF10">>,<<"U+D837","U+DF11">>,<<"U+D837","U+DF12">>,
   <<"U+D837","U+DF13">>,<<"U+D837","U+DF14">>,<<"U+D837","U+DF15">>,
   <<"U+D837","U+DF16">>,<<"U+D837","U+DF17">>,<<"U+D837","U+DF18">>,
   <<"U+D837","U+DF19">>,<<"U+D837","U+DF1A">>,<<"U+D837","U+DF1B">>,
   <<"U+D837","U+DF1C">>,<<"U+D837","U+DF1D">>,<<"U+D837","U+DF1E">>,
   <<"U+D837","U+DF25">>,<<"U+D837","U+DF26">>,<<"U+D837","U+DF27">>,
   <<"U+D837","U+DF28">>,<<"U+D837","U+DF29">>,<<"U+D837","U+DF2A">>,
   <<"U+D83A","U+DD00">>,<<"U+D83A","U+DD01">>,<<"U+D83A","U+DD02">>,
   <<"U+D83A","U+DD03">>,<<"U+D83A","U+DD04">>,<<"U+D83A","U+DD05">>,
   <<"U+D83A","U+DD06">>,<<"U+D83A","U+DD07">>,<<"U+D83A","U+DD08">>,
   <<"U+D83A","U+DD09">>,<<"U+D83A","U+DD0A">>,<<"U+D83A","U+DD0B">>,
   <<"U+D83A","U+DD0C">>,<<"U+D83A","U+DD0D">>,<<"U+D83A","U+DD0E">>,
   <<"U+D83A","U+DD0F">>,<<"U+D83A","U+DD10">>,<<"U+D83A","U+DD11">>,
   <<"U+D83A","U+DD12">>,<<"U+D83A","U+DD13">>,<<"U+D83A","U+DD14">>,
   <<"U+D83A","U+DD15">>,<<"U+D83A","U+DD16">>,<<"U+D83A","U+DD17">>,
   <<"U+D83A","U+DD18">>,<<"U+D83A","U+DD19">>,<<"U+D83A","U+DD1A">>,
   <<"U+D83A","U+DD1B">>,<<"U+D83A","U+DD1C">>,<<"U+D83A","U+DD1D">>,
   <<"U+D83A","U+DD1E">>,<<"U+D83A","U+DD1F">>,<<"U+D83A","U+DD20">>,
   <<"U+D83A","U+DD21">>,<<"U+D83A","U+DD22">>,<<"U+D83A","U+DD23">>,
   <<"U+D83A","U+DD24">>,<<"U+D83A","U+DD25">>,<<"U+D83A","U+DD26">>,
   <<"U+D83A","U+DD27">>,<<"U+D83A","U+DD28">>,<<"U+D83A","U+DD29">>,
   <<"U+D83A","U+DD2A">>,<<"U+D83A","U+DD2B">>,<<"U+D83A","U+DD2C">>,
   <<"U+D83A","U+DD2D">>,<<"U+D83A","U+DD2E">>,<<"U+D83A","U+DD2F">>,
   <<"U+D83A","U+DD30">>,<<"U+D83A","U+DD31">>,<<"U+D83A","U+DD32">>,
   <<"U+D83A","U+DD33">>,<<"U+D83A","U+DD34">>,<<"U+D83A","U+DD35">>,
   <<"U+D83A","U+DD36">>,<<"U+D83A","U+DD37">>,<<"U+D83A","U+DD38">>,
   <<"U+D83A","U+DD39">>,<<"U+D83A","U+DD3A">>,<<"U+D83A","U+DD3B">>,
   <<"U+D83A","U+DD3C">>,<<"U+D83A","U+DD3D">>,<<"U+D83A","U+DD3E">>,
   <<"U+D83A","U+DD3F">>,<<"U+D83A","U+DD40">>,<<"U+D83A","U+DD41">>,
   <<"U+D83A","U+DD42">>,<<"U+D83A","U+DD43">>,<<"U+D83C","U+DD30">>,
   <<"U+D83C","U+DD31">>,<<"U+D83C","U+DD32">>,<<"U+D83C","U+DD33">>,
   <<"U+D83C","U+DD34">>,<<"U+D83C","U+DD35">>,<<"U+D83C","U+DD36">>,
   <<"U+D83C","U+DD37">>,<<"U+D83C","U+DD38">>,<<"U+D83C","U+DD39">>,
   <<"U+D83C","U+DD3A">>,<<"U+D83C","U+DD3B">>,<<"U+D83C","U+DD3C">>,
   <<"U+D83C","U+DD3D">>,<<"U+D83C","U+DD3E">>,<<"U+D83C","U+DD3F">>,
   <<"U+D83C","U+DD40">>,<<"U+D83C","U+DD41">>,<<"U+D83C","U+DD42">>,
   <<"U+D83C","U+DD43">>,<<"U+D83C","U+DD44">>,<<"U+D83C","U+DD45">>,
   <<"U+D83C","U+DD46">>,<<"U+D83C","U+DD47">>,<<"U+D83C","U+DD48">>,
   <<"U+D83C","U+DD49">>,<<"U+D83C","U+DD50">>,<<"U+D83C","U+DD51">>,
   <<"U+D83C","U+DD52">>,<<"U+D83C","U+DD53">>,<<"U+D83C","U+DD54">>,
   <<"U+D83C","U+DD55">>,<<"U+D83C","U+DD56">>,<<"U+D83C","U+DD57">>,
   <<"U+D83C","U+DD58">>,<<"U+D83C","U+DD59">>,<<"U+D83C","U+DD5A">>,
   <<"U+D83C","U+DD5B">>,<<"U+D83C","U+DD5C">>,<<"U+D83C","U+DD5D">>,
   <<"U+D83C","U+DD5E">>,<<"U+D83C","U+DD5F">>,<<"U+D83C","U+DD60">>,
   <<"U+D83C","U+DD61">>,<<"U+D83C","U+DD62">>,<<"U+D83C","U+DD63">>,
   <<"U+D83C","U+DD64">>,<<"U+D83C","U+DD65">>,<<"U+D83C","U+DD66">>,
   <<"U+D83C","U+DD67">>,<<"U+D83C","U+DD68">>,<<"U+D83C","U+DD69">>,
   <<"U+D83C","U+DD70">>,<<"U+D83C","U+DD71">>,<<"U+D83C","U+DD72">>,
   <<"U+D83C","U+DD73">>,<<"U+D83C","U+DD74">>,<<"U+D83C","U+DD75">>,
   <<"U+D83C","U+DD76">>,<<"U+D83C","U+DD77">>,<<"U+D83C","U+DD78">>,
   <<"U+D83C","U+DD79">>,<<"U+D83C","U+DD7A">>,<<"U+D83C","U+DD7B">>,
   <<"U+D83C","U+DD7C">>,<<"U+D83C","U+DD7D">>,<<"U+D83C","U+DD7E">>,
   <<"U+D83C","U+DD7F">>,<<"U+D83C","U+DD80">>,<<"U+D83C","U+DD81">>,
   <<"U+D83C","U+DD82">>,<<"U+D83C","U+DD83">>,<<"U+D83C","U+DD84">>,
   <<"U+D83C","U+DD85">>,<<"U+D83C","U+DD86">>,<<"U+D83C","U+DD87">>,
   <<"U+D83C","U+DD88">>,<<"U+D83C","U+DD89">>}

\* the lower case of one character outside a surrogate pair; "U+0130" is
\* handled by LowerPoint
LowerChar(c) ==
  IF \E i \in 1..Len(UpperCase) : UpperCase[i] = c
  THEN LowerCase[CHOOSE i \in 1..Len(UpperCase) : UpperCase[i] = c]
  ELSE c

\* the lower case of a surrogate pair
LowerPair(p) ==
  IF \E i \in 1..Len(UpperPairs) : UpperPairs[i] = p
  THEN LowerPairs[CHOOSE i \in 1..Len(UpperPairs) : UpperPairs[i] = p]
  ELSE p

\* the surrogate pairs that have case or are skipped by Final_Sigma; any
\* other pair has no case and lower-cases like its two halves, to itself
CasePairs == CasedPairs \cup IgnorablePairs

RECURSIVE CodePoints(_)
\* StringToCodePoints(s): each code point is the sequence of its one or two
\* characters
CodePoints(s) ==
  IF s = <<>> THEN <<>>
  ELSE IF Len(s) >= 2 /\ SubSeq(s, 1, 2) \in CasePairs
  THEN <<SubSeq(s, 1, 2)>> \o CodePoints(SubSeq(s, 3, Len(s)))
  ELSE <<SubSeq(s, 1, 1)>> \o CodePoints(Tail(s))

IsIgnorable(cp) ==
  IF Len(cp) = 1 THEN cp[1] \in IgnorableUnits ELSE cp \in IgnorablePairs

IsCased(cp) ==
  IF Len(cp) = 1 THEN cp[1] \in CasedUnits ELSE cp \in CasedPairs

RECURSIVE PrecededByCased(_, _)
\* going back from cps[i]: case-ignorable code points, then a cased letter
PrecededByCased(cps, i) ==
  IF i < 1 THEN FALSE
  ELSE IF IsIgnorable(cps[i]) THEN PrecededByCased(cps, i - 1)
  ELSE IsCased(cps[i])

RECURSIVE FollowedByCased(_, _)
\* going on from cps[i]: case-ignorable code points, then a cased letter
FollowedByCased(cps, i) ==
  IF i > Len(cps) THEN FALSE
  ELSE IF IsIgnorable(cps[i]) THEN FollowedByCased(cps, i + 1)
  ELSE IsCased(cps[i])

\* the Final_Sigma condition of SpecialCasing for the sigma at cps[i]
FinalSigma(cps, i) ==
  PrecededByCased(cps, i - 1) /\ ~FollowedByCased(cps, i + 1)

\* the lower case of cps[i]: capital sigma by its context, I with dot above
\* to i and a combining dot, any other code point by the tables
LowerPoint(cps, i) ==
  LET cp == cps[i]
  IN IF cp = <<"U+03A3">>
     THEN (IF FinalSigma(cps, i) THEN <<"U+03C2">> ELSE <<"U+03C3">>)
     ELSE IF cp = <<"U+0130">> THEN <<"i", "U+0307">>
     ELSE IF Len(cp) = 1 THEN <<LowerChar(cp[1])>>
     ELSE LowerPair(cp)

\* s.toLowerCase()
ToLowerCase(s) ==
  LET cps == CodePoints(s)
      RECURSIVE From(_)
      From(i) == IF i > Len(cps) THEN <<>> ELSE LowerPoint(cps, i) \o From(i + 1)
  IN From(1)

\* WhiteSpace and LineTerminator of ECMAScript: tab, line feed, vertical
\* tab, form feed, carriage return, space, no-break space, the Unicode
\* space separators, line and paragraph separator, byte order mark
WhiteSpace ==
  {"\t", "\n", "U+000B", "\f", "\r", " ", "U+00A0", "U+1680", "U+2000",
   "U+2001", "U+2002", "U+2003", "U+2004", "U+2005", "U+2006", "U+2007",
   "U+2008", "U+2009", "U+200A", "U+2028", "U+2029", "U+202F", "U+205F",
   "U+3000", "U+FEFF"}

RECURSIVE TrimStart(_)
TrimStart(s) ==
  IF s # <<>> /\ Head(s) \in WhiteSpace THEN TrimStart(Tail(s)) ELSE s

RECURSIVE TrimEnd(_)
TrimEnd(s) ==
  IF s # <<>> /\ s[Len(s)] \in WhiteSpace
  THEN TrimEnd(SubSeq(s, 1, Len(s) - 1)) ELSE s

\* s.trim()
Trim(s) == TrimEnd(TrimStart(s))

-----------------------------------------------------------------------------
(* Utils *)

chars == <<"A","B","C","D","E","F","G","H","J","K","M","N","P","Q","R","S","T","U","V","W","X","Y","Z","2","3","4","5","6","7","8","9">>

\* makeCode(len = 4): draws[i] is Math.floor(Math.random() * chars.length)
\* of iteration i
makeCode(draws) == [i \in 1..Len(draws) |-> chars[draws[i] + 1]]

\* send(ws, type, data): one frame, if the socket is open; cs is the table
\* of sockets at the time of the call
send(cs, ws, type, data) ==
  IF cs[ws].readyState = "OPEN"
  THEN << [to |-> ws, type |-> type, data |-> data] >>
  ELSE << >>

RECURSIVE broadcast(_, _, _, _)
\* broadcast(clients, type, data): one frame per entry of clients that is
\* open, in order, an entry that occurs twice being written to twice
broadcast(cs, clients, type, data) ==
  IF clients = <<>> THEN <<>>
  ELSE send(cs, Head(clients), type, data)
         \o broadcast(cs, Tail(clients), type, data)

-----------------------------------------------------------------------------
(* Word bank *)

CATEGORIES ==
  <<
   [name |-> <<"F","r","u","i","t","s">>,
    grid |-> <<
         <<<<"A","p","p","l","e">>,
           <<"B","a","n","a","n","a">>,
           <<"C","h","e","r","r","y">>,
           <<"D","a","t","e">>>>,
         <<<<"F","i","g">>,
           <<"G","r","a","p","e">>,
           <<"L","e","m","o","n">>,
           <<"M","a","n","g","o">>>>,
         <<<<"O","r","a","n","g","e">>,
           <<"P","a","p","a","y","a">>,
           <<"P","e","a","r">>,
           <<"Q","u","i","n","c","e">>>>,
         <<<<"K","i","w","i">>,
           <<"L","y","c","h","e","e">>,
           <<"M","e","l","o","n">>,
           <<"P","l","u","m">>>> >>],
   [name |-> <<"A","n","i","m","a","l","s">>,
    grid |-> <<
         <<<<"C","a","t">>,
           <<"D","o","g">>,
           <<"H","o","r","s","e">>,
           <<"C","o","w">>>>,
         <<<<"S","h","e","e","p">>,
           <<"P","i","g">>,
           <<"G","o","a","t">>,
           <<"D","e","e","r">>>>,
         <<<<"L","i","o","n">>,
           <<"T","i","g","e","r">>,
           <<"B","e","a","r">>,
           <<"W","o","l","f">>>>,
         <<<<"R","a","b","b","i","t">>,
           <<"F","o","x">>,
           <<"O","t","t","e","r">>,
           <<"W","h","a","l","e">>>> >>],
   [name |-> <<"T","h","i","n","g","s"," ","a","t"," ","S","c","h","o","o","l">>,
    grid |-> <<
         <<<<"D","e","s","k">>,
           <<"C","h","a","i","r">>,
           <<"B","o","o","k">>,
           <<"P","e","n">>>>,
         <<<<"R","u","l","e","r">>,
           <<"M","a","p">>,
           <<"C","l","o","c","k">>,
           <<"B","e","l","l">>>>,
         <<<<"L","a","p","t","o","p">>,
           <<"T","e","a","c","h","e","r">>,
           <<"B","o","a","r","d">>,
           <<"L","o","c","k","e","r">>>>,
         <<<<"B","u","s">>,
           <<"U","n","i","f","o","r","m">>,
           <<"E","x","a","m">>,
           <<"C","l","a","s","s">>>> >>]
  >>

\* The cell a start draws: category index, row and column, each the value of
\* one Math.floor(Math.random() * n); Cell(k) enumerates the triples
Cell(k) == [cat |-> k % Len(CATEGORIES), r |-> (k \div Len(CATEGORIES)) % 4,
            c |-> (k \div (4 * Len(CATEGORIES))) % 4]

-----------------------------------------------------------------------------
(* Room / game state management *)

Accusation == variant = "accusation"

\* hostWs: null
NoWs == 0
NoCoord == [r |-> -1, c |-> -1]
NoCategory == [name |-> <<>>, grid |-> <<>>]
EmptyObject == [k \in {} |-> Undefined]

\* the room object createRoom builds (created: Date.now() is informational
\* and left out)
NewRoom(code) ==
  [code |-> code, players |-> <<>>, hostWs |-> NoWs, state |-> "lobby",
   capacity |-> 8, minPlayers |-> 3, category |-> NoCategory, grid |-> <<>>,
   coord |-> NoCoord, chameleonId |-> Null, hints |-> EmptyObject,
   votes |-> EmptyObject, accusations |-> <<>>]

\* rooms.set(code, room) / rooms.delete(code)
MapSet(m, k, val) == [x \in (DOMAIN m) \cup {k} |-> IF x = k THEN val ELSE m[x]]
MapDelete(m, k) == [x \in (DOMAIN m) \ {k} |-> m[x]]

\* if (!(key in obj)) obj[key] = val: the first value is kept
ObjSetOnce(o, k, val) ==
  [x \in (DOMAIN o) \cup {k} |-> IF x \in DOMAIN o THEN o[x] ELSE val]

\* obj[key] = val on a plain object
ObjSet(o, k, val) == [x \in (DOMAIN o) \cup {k} |-> IF x = k THEN val ELSE o[x]]

\* rooms.has(key) for a JavaScript value key: the keys are strings
RoomsHas(key) == key.t = "string" /\ key.v \in DOMAIN rooms

getPublicRoomState(room) ==
  [code |-> room.code,
   players |-> [i \in 1..Len(room.players) |->
                  [id |-> room.players[i].id, name |-> room.players[i].name]],
   state |-> room.state,
   category |-> IF room.category # NoCategory
                THEN Str(room.category.name) ELSE Null,
   playerCount |-> Len(room.players)]

\* room.players.map(p => p.ws).concat(room.hostWs ? [room.hostWs] : [])
Clients(room) ==
  [i \in 1..Len(room.players) |-> room.players[i].ws]
    \o (IF room.hostWs # NoWs THEN <<room.hostWs>> ELSE <<>>)

\* the recipients of the close handler's room_update: server.js leaves the
\* host out
CloseClientsIn(accusation, room) ==
  IF accusation THEN Clients(room)
  ELSE [i \in 1..Len(room.players) |-> room.players[i].ws]

CloseClients(room) == CloseClientsIn(Accusation, room)

\* room.players.filter(p => p.id !== id)
RECURSIVE FilterPlayers(_, _)
FilterPlayers(players, id) ==
  IF players = <<>> THEN <<>>
  ELSE (IF Head(players).id # id THEN <<Head(players)>> ELSE <<>>)
         \o FilterPlayers(Tail(players), id)

\* room.players.forEach(p => send(p.ws, type, data))
RECURSIVE SendEach(_, _, _, _)
SendEach(cs, players, type, data) ==
  IF players = <<>> THEN <<>>
  ELSE send(cs, Head(players).ws, type, data)
         \o SendEach(cs, Tail(players), type, data)

\* Object.keys(o).length
KeyCount(o) == Cardinality(DOMAIN o)

\* room.grid[room.coord.r][room.coord.c]
SecretWord(room) == room.grid[room.coord.r + 1][room.coord.c + 1]

\* "constructor", "__proto__": a property name as characters
Constructor == <<"c","o","n","s","t","r","u","c","t","o","r">>
Proto == <<"_","_","p","r","o","t","o","_","_">>

\* the names `const tally = {}` inherits from Object.prototype as functions;
\* __proto__ is inherited as an accessor
PrototypeFunctions ==
  {Constructor,
   ToStringName,
   <<"t","o","L","o","c","a","l","e","S","t","r","i","n","g">>,
   <<"v","a","l","u","e","O","f">>,
   <<"h","a","s","O","w","n","P","r","o","p","e","r","t","y">>,
   <<"i","s","P","r","o","t","o","t","y","p","e","O","f">>,
   <<"p","r","o","p","e","r","t","y","I","s","E","n","u","m","e","r","a","b","l","e">>,
   <<"_","_","d","e","f","i","n","e","G","e","t","t","e","r","_","_">>,
   <<"_","_","d","e","f","i","n","e","S","e","t","t","e","r","_","_">>,
   <<"_","_","l","o","o","k","u","p","G","e","t","t","e","r","_","_">>,
   <<"_","_","l","o","o","k","u","p","S","e","t","t","e","r","_","_">>}

\* String(f) of the function inherited under the name: the constructor is
\* Object, every other function is named as its property
NativeSource(name) ==
  <<"f","u","n","c","t","i","o","n"," ">>
    \o (IF name = Constructor THEN <<"O","b","j","e","c","t">> ELSE name)
    \o <<"(",")"," ","{"," ","[","n","a","t","i","v","e"," ","c","o","d","e","]"," ","}">>

RECURSIVE Ones(_)
Ones(n) == IF n = 0 THEN <<>> ELSE <<"1">> \o Ones(n - 1)

\* how many votes name the key
VoteCount(votes, key) ==
  Cardinality({ k \in DOMAIN votes : String(votes[k]) = key })

\* tally[t] throws for one of the votes: the key cannot be made a string
TallyThrows(votes) == \E k \in DOMAIN votes : StringThrows(votes[k])

\* the vote handler's tally, tally[t] = (tally[t] || 0) + 1 for each vote:
\* TypeError when a key cannot be made; else a count under an own key; under
\* an inherited name the first read is the function, so the entry is its
\* source text followed by one "1" per vote; under __proto__ the assignment
\* goes to the accessor and sets no key
Tally(votes) ==
  IF TallyThrows(votes) THEN TypeError
  ELSE
  [key \in { String(votes[k]) : k \in DOMAIN votes } \ {Proto} |->
     IF key \in PrototypeFunctions
     THEN Str(NativeSource(key) \o Ones(VoteCount(votes, key)))
     ELSE Num(NumToString(VoteCount(votes, key)))]

\* the keys that end in `winners`, once the tally is made: those with the
\* highest count; an entry that is a string is neither > nor === a number
Winners(votes) ==
  LET tally == Tally(votes)
      counted == { id \in DOMAIN tally : tally[id].t = "number" }
  IN { id \in counted :
         \A other \in counted : VoteCount(votes, other) <= VoteCount(votes, id) }

\* the unique winner, else null, whatever the accusations are
AccusedIdByTally(room) ==
  LET winners == Winners(room.votes)
  IN IF Cardinality(winners) = 1
     THEN Str(CHOOSE id \in winners : TRUE) ELSE Null

\* part_000: the first accusation's target, else the unique winner, else null
\* server.js: the unique winner, else null
AccusedId(room) ==
  LET winners == Winners(room.votes)
      unique == IF Cardinality(winners) = 1
                THEN Str(CHOOSE id \in winners : TRUE) ELSE Null
  IN IF Accusation /\ Len(room.accusations) > 0
     THEN room.accusations[1].accusedId
     ELSE unique

\* const correct = guess && guess.toLowerCase().trim() ===
\* secretWord.toLowerCase(): "falsy" when guess is, "TypeError" when guess is
\* truthy and no string (guess.toLowerCase is not a function on a number, a
\* boolean, an array or an object out of JSON.parse), else the comparison
GuessCorrect(guess, secretWord) ==
  IF ~Truthy(guess) THEN "falsy"
  ELSE IF guess.t # "string" THEN TypeError
  ELSE IF Trim(ToLowerCase(guess.v)) = ToLowerCase(secretWord) THEN "true"
  ELSE "false"

-----------------------------------------------------------------------------
(* Connection and message handlers.  ws is the index of a socket in conns. *)

IsOpen(ws) == ws \in 1..Len(conns) /\ conns[ws].readyState = "OPEN"

\* return send(ws, 'error', code): nothing else changes
Error(ws, code) ==
  /\ sent' = send(conns, ws, "error", code)
  /\ UNCHANGED <<running, variant, rooms, conns, nextId>>

\* An exception leaves the 'message' listener uncaught: the process exits.
\* No frame is written, no 'close' handler runs, the room store is gone and
\* every socket is closed by the exit.
UncaughtException ==
  /\ running' = FALSE
  /\ rooms' = [code \in {} |-> NewRoom(code)]
  /\ conns' = [ws \in 1..Len(conns) |->
                 [conns[ws] EXCEPT !.readyState = "CLOSED"]]
  /\ sent' = <<>>
  /\ UNCHANGED <<variant, nextId>>

\* wss.on('connection'): ws.id = 'p' + (nextId++), ws.isAlive = true
Connect ==
  /\ running
  /\ LET ws == Len(conns) + 1
         id == <<"p">> \o NumToString(nextId)
         cs == Append(conns, [id |-> id, roomCode |-> Undefined,
                              role |-> Undefined, isAlive |-> TRUE,
                              readyState |-> "OPEN"])
     IN /\ conns' = cs
        /\ nextId' = nextId + 1
        /\ sent' = send(cs, ws, "connected", [id |-> id])
  /\ UNCHANGED <<running, variant, rooms>>

\* JSON.parse(raw) throws
InvalidJson(ws) ==
  /\ IsOpen(ws)
  /\ Error(ws, "invalid_json")

\* JSON.parse(raw) is null: const { type, data } = msg throws a TypeError
NullMessage(ws) ==
  /\ IsOpen(ws)
  /\ UncaughtException

\* default: of the switch, for a message that is not null
UnknownType(ws) ==
  /\ IsOpen(ws)
  /\ Error(ws, IF Accusation THEN "unknown_message_type" ELSE "unknown_type")

\* createRoom without its while loop: the first code drawn is kept
AnyCode(code) == TRUE

\* while (rooms.has(code)) code = makeCode(): the code kept is not in use
FreshCode(code) == code \notin DOMAIN rooms

\* case 'create_room'; draws are the random draws of the makeCode call whose
\* code the loop of createRoom keeps
CreateRoom(ws, draws) ==
  /\ IsOpen(ws)
  /\ LET code == makeCode(draws)
     IN /\ FreshCode(code)
        /\ rooms' = MapSet(rooms, code, [NewRoom(code) EXCEPT !.hostWs = ws])
        /\ conns' = [conns EXCEPT ![ws].roomCode = Str(code),
                                  ![ws].role = Str(<<"h","o","s","t">>)]
        /\ sent' = send(conns, ws, "room_created", [code |-> code])
  /\ UNCHANGED <<running, variant, nextId>>

\* x.slice is a function: x is a string or an array
HasSlice(x) == x.t \in {"string", "array"}

\* x.slice(0, n) for a string or an array x and n >= 0
SliceValue(x, n) == [x EXCEPT !.v = Slice(@, n), !.e = Slice(@, n)]

\* room.players.length > room.capacity: the capacity test, off by one
RoomFullOffByOne(room) == Len(room.players) > room.capacity

\* room.players.length >= room.capacity
RoomFull(room) == Len(room.players) >= room.capacity

\* case 'join_room' without the test of room.state
JoinRoomAnyPhase(ws, code, name) ==
  /\ IsOpen(ws)
  /\ IF ~Truthy(code) \/ ~Truthy(name) THEN Error(ws, "missing_code_or_name")
     ELSE IF ~RoomsHas(code) THEN Error(ws, "room_not_found")
     ELSE LET room == rooms[code.v] IN
       IF RoomFull(room) THEN Error(ws, "room_full")
       ELSE IF ~HasSlice(name) THEN UncaughtException
       ELSE IF ~Accusation /\ StringThrows(name) THEN UncaughtException
       ELSE
         LET player == [id |-> conns[ws].id, ws |-> ws,
                        name |-> SliceValue(name, 20), ready |-> FALSE]
             joined == [room EXCEPT !.players = Append(@, player)]
         IN /\ rooms' = [rooms EXCEPT ![code.v] = joined]
            /\ conns' = [conns EXCEPT ![ws].roomCode = code,
                           ![ws].role = Str(<<"p","l","a","y","e","r">>)]
            /\ sent' = broadcast(conns, Clients(joined), "room_update",
                                 getPublicRoomState(joined))
            /\ UNCHANGED <<running, variant, nextId>>

\* case 'join_room'; name.slice is not a function when name is truthy and
\* neither a string nor an array: a TypeError.  server.js then logs
\* `${name} joined room ${code}`, which throws when String(name) does
JoinRoom(ws, code, name) ==
  /\ IsOpen(ws)
  /\ IF ~Truthy(code) \/ ~Truthy(name) THEN Error(ws, "missing_code_or_name")
     ELSE IF ~RoomsHas(code) THEN Error(ws, "room_not_found")
     ELSE LET room == rooms[code.v] IN
       IF RoomFull(room) THEN Error(ws, "room_full")
       ELSE IF room.state # "lobby" THEN Error(ws, "game_already_started")
       ELSE IF ~HasSlice(name) THEN UncaughtException
       ELSE IF ~Accusation /\ StringThrows(name) THEN UncaughtException
       ELSE
         LET player == [id |-> conns[ws].id, ws |-> ws,
                        name |-> SliceValue(name, 20), ready |-> FALSE]
             joined == [room EXCEPT !.players = Append(@, player)]
         IN /\ rooms' = [rooms EXCEPT ![code.v] = joined]
            /\ conns' = [conns EXCEPT ![ws].roomCode = code,
                           ![ws].role = Str(<<"p","l","a","y","e","r">>)]
            /\ sent' = broadcast(conns, Clients(joined), "room_update",
                                 getPublicRoomState(joined))
            /\ UNCHANGED <<running, variant, nextId>>

\* the frames host_start_game writes: one game_start_player per player, the
\* host's game_start_host, then the room_update broadcast
StartFrames(room) ==
  LET info == [coord |-> room.coord, grid |-> room.grid,
               category |-> room.category.name]
      RECURSIVE Personal(_)
      Personal(players) ==
        IF players = <<>> THEN <<>>
        ELSE (IF Str(Head(players).id) = room.chameleonId
              THEN send(conns, Head(players).ws, "game_start_player",
                        [role |-> "chameleon"])
              ELSE send(conns, Head(players).ws, "game_start_player",
                        [role |-> "not_chameleon", coord |-> info.coord,
                         grid |-> info.grid, category |-> info.category]))
             \o Personal(Tail(players))
  IN Personal(room.players)
       \o (IF room.hostWs # NoWs
           THEN send(conns, room.hostWs, "game_start_host",
                     [coord |-> info.coord, grid |-> info.grid,
                      category |-> info.category,
                      chameleonId |-> room.chameleonId])
           ELSE <<>>)
       \o broadcast(conns, Clients(room), "room_update",
                    getPublicRoomState(room))

\* case 'host_start_game'; cells are the (category, r, c) draws Math.random
\* can make, the chameleon index is any index of players
HostStartGame(ws, cells) ==
  /\ IsOpen(ws)
  /\ IF ~RoomsHas(conns[ws].roomCode)
     THEN Error(ws, IF Accusation THEN "room_not_found" ELSE "not_host_or_room")
     ELSE LET room == rooms[conns[ws].roomCode.v] IN
       IF ws # room.hostWs
       THEN Error(ws, IF Accusation THEN "not_host" ELSE "not_host_or_room")
       ELSE IF Len(room.players) < room.minPlayers
       THEN Error(ws, "not_enough_players")
       ELSE \E cell \in cells, chameleonIndex \in 0..(Len(room.players) - 1) :
         LET category == CATEGORIES[cell.cat + 1]
             started == [room EXCEPT
                           !.category = category,
                           !.grid = category.grid,
                           !.coord = [r |-> cell.r, c |-> cell.c],
                           !.chameleonId = Str(room.players[chameleonIndex + 1].id),
                           !.state = "hint",
                           !.hints = EmptyObject,
                           !.votes = EmptyObject,
                           !.accusations = <<>>]
         IN /\ rooms' = [rooms EXCEPT ![room.code] = started]
            /\ sent' = StartFrames(started)
            /\ UNCHANGED <<running, variant, conns, nextId>>

\* part_000 refuses a hint longer than 50 characters; server.js cuts it
HintValidIn(accusation, hint) ==
  /\ Truthy(hint)
  /\ hint.t = "string"
  /\ accusation => Len(hint.v) <= 50

HintValid(hint) == HintValidIn(Accusation, hint)

\* Object.keys(room.hints).length >= room.players.length - 1: one hint early
AllHintsInEarly(hints, room) == KeyCount(hints) >= Len(room.players) - 1

\* Object.keys(room.hints).length === room.players.length
AllHintsIn(hints, room) == KeyCount(hints) = Len(room.players)

\* the accepted part of 'submit_hint': record the hint, then move on once
\* every player has one
AcceptHint(ws, room, hint) ==
  LET hints == ObjSet(room.hints, conns[ws].id, Slice(hint.v, 50))
      all == AllHintsIn(hints, room)
      after == [room EXCEPT
                  !.hints = hints,
                  !.state = IF all
                            THEN (IF Accusation THEN "accusation" ELSE "voting")
                            ELSE @]
      clients == Clients(after)
  IN /\ rooms' = [rooms EXCEPT ![room.code] = after]
     /\ sent' = IF all
                THEN broadcast(conns, clients, "hints_revealed",
                               [hints |-> hints])
                       \o broadcast(conns, clients, "room_update",
                                    getPublicRoomState(after))
                ELSE broadcast(conns, clients, "hint_progress",
                               [submitted |-> KeyCount(hints),
                                total |-> Len(room.players)])
     /\ UNCHANGED <<running, variant, conns, nextId>>

\* case 'submit_hint' with the hint stored before the phase is tested
SubmitHintStoreFirst(ws, hint) ==
  /\ IsOpen(ws)
  /\ IF ~RoomsHas(conns[ws].roomCode)
     THEN Error(ws, IF Accusation THEN "room_not_found" ELSE "not_in_hint")
     ELSE LET room == rooms[conns[ws].roomCode.v] IN
       IF ~HintValid(hint) THEN Error(ws, "invalid_hint")
       ELSE IF room.state # "hint"
       THEN /\ rooms' = [rooms EXCEPT ![room.code].hints =
                                   ObjSet(@, conns[ws].id, Slice(hint.v, 50))]
            /\ sent' = send(conns, ws, "error",
                            IF Accusation THEN "not_in_hint_phase"
                            ELSE "not_in_hint")
            /\ UNCHANGED <<running, variant, conns, nextId>>
       ELSE AcceptHint(ws, room, hint)

\* case 'submit_hint'
SubmitHint(ws, hint) ==
  /\ IsOpen(ws)
  /\ IF ~RoomsHas(conns[ws].roomCode)
     THEN Error(ws, IF Accusation THEN "room_not_found" ELSE "not_in_hint")
     ELSE LET room == rooms[conns[ws].roomCode.v] IN
       IF room.state # "hint"
       THEN Error(ws, IF Accusation THEN "not_in_hint_phase" ELSE "not_in_hint")
       ELSE IF ~HintValid(hint) THEN Error(ws, "invalid_hint")
       ELSE AcceptHint(ws, room, hint)

\* case 'accuse' (part_000); server.js has no such case
Accuse(ws, accusedId) ==
  /\ IsOpen(ws)
  /\ IF ~Accusation THEN Error(ws, "unknown_type")
     ELSE IF ~RoomsHas(conns[ws].roomCode) THEN Error(ws, "room_not_found")
     ELSE LET room == rooms[conns[ws].roomCode.v] IN
       IF room.state # "accusation" THEN Error(ws, "not_in_accusation_phase")
       ELSE IF ~Truthy(accusedId) THEN Error(ws, "missing_accused")
       ELSE
         LET after == [room EXCEPT
                         !.accusations = Append(@, [accuserId |-> conns[ws].id,
                                                    accusedId |-> accusedId]),
                         !.state = "voting",
                         !.votes = EmptyObject]
             clients == Clients(after)
         IN /\ rooms' = [rooms EXCEPT ![room.code] = after]
            /\ sent' = broadcast(conns, clients, "voting_start",
                                 [accusedId |-> accusedId])
                         \o broadcast(conns, clients, "room_update",
                                      getPublicRoomState(after))
            /\ UNCHANGED <<running, variant, conns, nextId>>

\* the frames and final state of the vote handler once every vote is in;
\* throws when the tally does, before any frame and any assignment
ResolveVotes(room) ==
  LET throws == TallyThrows(room.votes)
      accusedId == AccusedId(room)
      secretWord == SecretWord(room)
      finished == [room EXCEPT !.state = "finished"]
      guessing == [room EXCEPT !.state = "chameleon_guess"]
      clients == Clients(room)
      update(r) == broadcast(conns, clients, "room_update", getPublicRoomState(r))
  IN IF throws THEN [throws |-> TRUE, room |-> room, sent |-> <<>>]
     ELSE IF ~Accusation
     THEN [throws |-> FALSE, room |-> finished,
           sent |-> broadcast(conns, clients, "round_result",
                      [success |-> accusedId = room.chameleonId,
                       secretWord |-> secretWord,
                       chameleonId |-> room.chameleonId,
                       accusedId |-> accusedId])
                    \o update(finished)]
     ELSE IF ~Truthy(accusedId)
     THEN [throws |-> FALSE, room |-> finished,
           sent |-> broadcast(conns, clients, "round_result",
                      [success |-> FALSE, reason |-> "no_consensus",
                       chameleonId |-> room.chameleonId,
                       secretWord |-> secretWord])
                    \o update(finished)]
     ELSE IF accusedId = room.chameleonId
     THEN [throws |-> FALSE, room |-> guessing,
           sent |-> broadcast(conns, clients, "chameleon_caught",
                      [accusedId |-> accusedId,
                       chameleonId |-> room.chameleonId])
                    \o update(guessing)]
     ELSE [throws |-> FALSE, room |-> finished,
           sent |-> broadcast(conns, clients, "round_result",
                      [success |-> FALSE, reason |-> "wrong_accusation",
                       accusedId |-> accusedId,
                       chameleonId |-> room.chameleonId,
                       secretWord |-> secretWord])
                    \o update(finished)]

\* the phase test of 'vote' letting a finished room through
InVotingOrFinished(room) == room.state \in {"voting", "finished"}

\* room.state === 'voting'
InVoting(room) == room.state = "voting"

\* case 'vote': server.js logs `${ws.id} voted for ${targetId}` once the
\* vote is stored, and both programs key the tally by String(t) once every
\* vote is in; either throws when String does
Vote(ws, targetId) ==
  /\ IsOpen(ws)
  /\ IF ~RoomsHas(conns[ws].roomCode)
     THEN Error(ws, IF Accusation THEN "room_not_found" ELSE "not_in_voting")
     ELSE LET room == rooms[conns[ws].roomCode.v] IN
       IF ~InVoting(room)
       THEN Error(ws, IF Accusation THEN "not_in_voting_phase" ELSE "not_in_voting")
       ELSE IF Accusation /\ ~Truthy(targetId)
       THEN Error(ws, "missing_vote_target")
       ELSE
         LET voted == [room EXCEPT
                         !.votes = ObjSet(@, conns[ws].id, targetId)]
             all == KeyCount(voted.votes) = Len(room.players)
             res == ResolveVotes(voted)
         IN
         IF ~Accusation /\ StringThrows(targetId) THEN UncaughtException
         ELSE IF all /\ res.throws THEN UncaughtException
         ELSE
            /\ rooms' = [rooms EXCEPT ![room.code] = IF all THEN res.room
                                                     ELSE voted]
            /\ sent' = IF all THEN res.sent
                       ELSE broadcast(conns, Clients(voted), "vote_progress",
                                      [submitted |-> KeyCount(voted.votes),
                                       total |-> Len(room.players)])
            /\ UNCHANGED <<running, variant, conns, nextId>>

\* case 'chameleon_guess' (part_000); server.js has no such case
ChameleonGuess(ws, guess) ==
  /\ IsOpen(ws)
  /\ IF ~Accusation THEN Error(ws, "unknown_type")
     ELSE IF ~RoomsHas(conns[ws].roomCode) THEN Error(ws, "room_not_found")
     ELSE LET room == rooms[conns[ws].roomCode.v] IN
       IF room.state # "chameleon_guess"
       THEN Error(ws, "not_in_chameleon_guess_phase")
       ELSE IF Str(conns[ws].id) # room.chameleonId
       THEN Error(ws, "not_chameleon")
       ELSE
         LET secretWord == SecretWord(room)
             correct == GuessCorrect(guess, secretWord)
             after == [room EXCEPT !.state = "finished"]
             clients == Clients(room)
         IN IF correct = TypeError THEN UncaughtException
            ELSE
              /\ rooms' = [rooms EXCEPT ![room.code] = after]
              /\ sent' = broadcast(conns, clients, "round_result",
                           [success |-> correct # "true",
                            reason |-> IF correct = "true"
                                       THEN "chameleon_guessed"
                                       ELSE "chameleon_failed",
                            guess |-> guess, secretWord |-> secretWord,
                            chameleonId |-> room.chameleonId])
                         \o broadcast(conns, clients, "room_update",
                                      getPublicRoomState(after))
              /\ UNCHANGED <<running, variant, conns, nextId>>

\* the reset without room.votes = {} and room.accusations = []
ResetRoomKeepsVotes(room) ==
  [room EXCEPT !.state = "lobby", !.category = NoCategory,
               !.grid = <<>>, !.coord = NoCoord,
               !.chameleonId = Null, !.hints = EmptyObject]

\* reset to lobby but keep players
ResetRoom(room) ==
  [room EXCEPT !.state = "lobby", !.category = NoCategory,
               !.grid = <<>>, !.coord = NoCoord,
               !.chameleonId = Null, !.hints = EmptyObject,
               !.votes = EmptyObject, !.accusations = <<>>]

\* case 'host_reset' (part_000); server.js has no such case
HostReset(ws) ==
  /\ IsOpen(ws)
  /\ IF ~Accusation THEN Error(ws, "unknown_type")
     ELSE IF ~RoomsHas(conns[ws].roomCode) THEN Error(ws, "room_not_found")
     ELSE LET room == rooms[conns[ws].roomCode.v] IN
       IF ws # room.hostWs THEN Error(ws, "not_host")
       ELSE
         LET after == ResetRoom(room)
         IN /\ rooms' = [rooms EXCEPT ![room.code] = after]
            /\ sent' = broadcast(conns, Clients(after), "room_update",
                                 getPublicRoomState(after))
            /\ UNCHANGED <<running, variant, conns, nextId>>

\* ws.on('close'): the socket is CLOSED when the handler runs
CloseHandler(ws) ==
  /\ LET cs == [conns EXCEPT ![ws].readyState = "CLOSED"]
         code == conns[ws].roomCode
     IN /\ conns' = cs
        /\ IF ~Truthy(code) \/ ~RoomsHas(code)
           THEN /\ sent' = <<>>
                /\ UNCHANGED rooms
           ELSE LET room == rooms[code.v] IN
             IF ws = room.hostWs
             THEN \* host left -> dissolve room
                  /\ sent' = SendEach(cs, room.players, "room_closed", <<>>)
                  /\ rooms' = MapDelete(rooms, code.v)
             ELSE \* remove player
                  LET left == [room EXCEPT
                                 !.players = FilterPlayers(@, conns[ws].id)]
                      clients == CloseClients(left)
                  IN IF Len(clients) > 0
                     THEN /\ sent' = broadcast(cs, clients, "room_update",
                                               getPublicRoomState(left))
                          /\ rooms' = [rooms EXCEPT ![code.v] = left]
                     ELSE /\ sent' = <<>>
                          /\ rooms' = MapDelete(rooms, code.v)
  /\ UNCHANGED <<running, variant, nextId>>

\* the client's close frame arrives: the socket is CLOSING, and no listener
\* of the program runs until its 'close' is emitted
Close(ws) ==
  /\ IsOpen(ws)
  /\ conns' = [conns EXCEPT ![ws].readyState = "CLOSING"]
  /\ sent' = <<>>
  /\ UNCHANGED <<running, variant, rooms, nextId>>

\* 'close' is emitted for a socket that is CLOSING, after the client's close
\* frame or after ws.terminate(): the listener runs
EmitClose(ws) == conns[ws].readyState = "CLOSING" /\ CloseHandler(ws)

\* ws.on('pong'): ws.isAlive = true
Pong(ws) ==
  /\ IsOpen(ws)
  /\ conns' = [conns EXCEPT ![ws].isAlive = TRUE]
  /\ sent' = <<>>
  /\ UNCHANGED <<running, variant, rooms, nextId>>

\* the sweep with its test inverted: if (ws.isAlive) return ws.terminate()
SweepOneInverted(c) ==
  IF c.readyState = "CLOSED" THEN c
  ELSE IF c.isAlive
       THEN [c EXCEPT !.readyState = "CLOSING"]
       ELSE [c EXCEPT !.isAlive = FALSE]

\* the sweep's body for one member of wss.clients: terminate() leaves the
\* socket CLOSING until its 'close' is emitted; ping leaves it as it is
SweepOne(c) ==
  IF c.readyState = "CLOSED" THEN c
  ELSE IF ~c.isAlive
       THEN [c EXCEPT !.readyState = "CLOSING"]
       ELSE [c EXCEPT !.isAlive = FALSE]

\* the setInterval callback: one pass over wss.clients
Sweep ==
  /\ running
  /\ conns' = [ws \in 1..Len(conns) |-> SweepOne(conns[ws])]
  /\ sent' = <<>>
  /\ UNCHANGED <<running, variant, rooms, nextId>>

-----------------------------------------------------------------------------
(* The clients: which frames they send.  An environment e is a record of   *)
(* bounds; the handlers above are the same under every environment.        *)

RECURSIVE Repeat(_, _)
Repeat(c, n) == IF n = 0 THEN <<>> ELSE <<c>> \o Repeat(c, n - 1)

\* every client keeps one display name; the fourth one's is 21 characters
ClientNames ==
  << <<"A","n","n">>, <<"B","e","n">>, <<"C","y">>,
     <<"B","a","r","t","h","o","l","o","m","e","w","-",
       "A","l","e","x","a","n","d","e","r">> >>
ClientName(ws) == ClientNames[((ws - 1) % Len(ClientNames)) + 1]

PlayerId(k) == <<"p">> \o NumToString(k)

\* the draws the environment lets Math.random produce inside makeCode
CodeDraws(e) == { <<0, 0, 0, k>> : k \in 0..(Min(e.codes, Len(chars)) - 1) }
CellDraws(e) == { Cell(k) : k \in 0..(Min(e.cells, 16 * Len(CATEGORIES)) - 1) }

\* data.code is absent, a code makeCode can draw, or the array of one
CodeInputs(e) ==
  {Undefined, Arr(<< Str(makeCode(<<0, 0, 0, 0>>)) >>)}
    \cup { Str(makeCode(d)) : d \in CodeDraws(e) }
\* {"toString": 1}: an object that cannot be made a string
NoString == Obj(<< [k |-> ToStringName, x |-> Num(<<"1">>)] >>)
\* data.name is absent, the client's name, the number 7, true, an object,
\* an array of two names or an array holding an object that cannot be made
\* a string
NameInputs(ws) ==
  {Undefined, Str(ClientName(ws)), Num(<<"7">>), Bool(TRUE),
   Obj(<< [k |-> <<"a">>, x |-> Num(<<"1">>)] >>),
   Arr(<< Str(ClientName(ws)), Str(<<"B","o","b">>) >>),
   Arr(<< NoString >>)}
\* the clients that send an array for a name are those of the e.arrays
\* sockets that connected last
MayName(e, ws, name) == name.t = "array" => ws > e.conns - e.arrays
\* ill-formed hints, e.hints well-formed ones and, with e.long, one of 51
\* characters
HintInputs(e) ==
  {Undefined, Str(<<>>), Num(<<"7">>)}
    \cup { Str(<<"h">> \o NumToString(k)) : k \in 1..e.hints }
    \cup (IF e.long THEN {Str(Repeat("x", 51))} ELSE {})
\* names that are properties of Object.prototype
InheritedNames == <<Constructor, Proto>>
\* targets that are no strings: ["p<n>"], {"toString": 1}, true and
\* {"id": "p<n>"} for the id of the socket that connected last
OddTargets(e) ==
  << Arr(<< Str(PlayerId(e.conns)) >>), NoString, Bool(TRUE),
     Obj(<< [k |-> <<"i","d">>, x |-> Str(PlayerId(e.conns))] >>) >>
\* the ids of the e.targets sockets that connected last, and the first
\* e.names of the inherited names
TargetInputs(e) ==
  {Undefined}
    \cup { Str(PlayerId(e.conns - k)) : k \in 0..(Min(e.targets, e.conns) - 1) }
    \cup { Str(InheritedNames[k]) : k \in 1..Min(e.names, Len(InheritedNames)) }
\* data.accusedId: a target, or one of the first e.odd that are no strings
AccusedInputs(e) ==
  TargetInputs(e)
    \cup { OddTargets(e)[k] : k \in 1..Min(e.odd, Len(OddTargets(e))) }
\* data.targetId: a target, or one of the first e.oddVotes that are no
\* strings
VoteInputs(e) ==
  TargetInputs(e)
    \cup { OddTargets(e)[k] : k \in 1..Min(e.oddVotes, Len(OddTargets(e))) }
\* data.guess is absent, a string, the number 5, true or an array
GuessInputs ==
  {Undefined, Str(<<>>), Str(<<"A","p","p","l","e">>),
   Str(<<" ","a","P","P","L","E","\t">>),
   Str(<<"\f","A","P","P","L","E","U+00A0">>),
   Str(<<"A","p","p","l","e","s">>), Str(<<"a"," ","p","p","l","e">>),
   Num(<<"5">>), Bool(TRUE), Arr(<< Str(<<"A","p","p","l","e">>) >>)}

\* the handler that ran last answered with one error frame
Rejected == Len(sent) = 1 /\ sent[1].type = "error"

\* A rejected frame changes nothing but `sent` (ErrorsChangeNothing below
\* checks it at every step), so what follows it is what follows the state
\* before it: a run is not followed past a rejected frame.
Sockets == IF Rejected THEN {} ELSE 1..Len(conns)

Bound(ws) == Truthy(conns[ws].roomCode)
\* the sockets that are closing or closed
ClosedCount == Cardinality({ ws \in 1..Len(conns) : conns[ws].readyState # "OPEN" })

\* the sockets that are open and bound to no room
Idle == Cardinality({ ws \in 1..Len(conns) :
                      conns[ws].readyState = "OPEN" /\ ~Bound(ws) })

\* e.conns sockets connect over a run, and at most e.idle of them are open
\* and bound to no room at a time
MayConnect(e) ==
  /\ ~Rejected
  /\ nextId <= e.conns
  /\ Idle < e.idle

RECURSIVE SumLen(_)
SumLen(codes) ==
  IF codes = {} THEN 0
  ELSE LET code == CHOOSE c \in codes : TRUE
       IN Len(rooms[code].players) + SumLen(codes \ {code})

\* the player entries the store holds, over all rooms
Entries == SumLen(DOMAIN rooms)

\* A socket that is bound to a room sends create_room or join_room again
\* only if e.rebind, and join_room only while the store holds fewer than
\* e.entries player entries
MayCreate(e, ws) == e.rebind \/ ~Bound(ws)
MayJoin(e, ws) == ~Bound(ws) \/ (e.rebind /\ Entries < e.entries)

\* Unless e.hostPlays, the client that hosts a room is a display: it sends no
\* submit_hint, accuse, vote or chameleon_guess
IsHost(ws) == \E code \in DOMAIN rooms : rooms[code].hostWs = ws
Plays(e, ws) == e.hostPlays \/ ~IsHost(ws)

Init ==
  /\ running = TRUE
  /\ variant \in {"accusation", "simplified"}
  /\ rooms = [k \in {} |-> NewRoom(<<>>)]
  /\ conns = <<>>
  /\ nextId = 1
  /\ sent = <<>>

NextIn(e) ==
  \/ MayConnect(e) /\ Connect
  \/ \E ws \in Sockets : InvalidJson(ws)
  \/ \E ws \in Sockets : NullMessage(ws)
  \/ \E ws \in Sockets : UnknownType(ws)
  \/ \E ws \in Sockets, draws \in CodeDraws(e) :
       MayCreate(e, ws) /\ CreateRoom(ws, draws)
  \/ \E ws \in Sockets, code \in CodeInputs(e) :
       \E name \in NameInputs(ws) :
         MayName(e, ws, name) /\ MayJoin(e, ws) /\ JoinRoom(ws, code, name)
  \/ \E ws \in Sockets : HostStartGame(ws, CellDraws(e))
  \/ \E ws \in Sockets, hint \in HintInputs(e) :
       Plays(e, ws) /\ SubmitHint(ws, hint)
  \/ \E ws \in Sockets, accusedId \in AccusedInputs(e) :
       Plays(e, ws) /\ Accuse(ws, accusedId)
  \/ \E ws \in Sockets, targetId \in VoteInputs(e) :
       Plays(e, ws) /\ Vote(ws, targetId)
  \/ \E ws \in Sockets, guess \in GuessInputs :
       Plays(e, ws) /\ ChameleonGuess(ws, guess)
  \/ \E ws \in Sockets : HostReset(ws)
  \/ \E ws \in Sockets :
       ClosedCount < e.closes /\ ws <= e.closers /\ Close(ws)
  \/ \E ws \in Sockets : EmitClose(ws)

-----------------------------------------------------------------------------
(* Specifications *)

\* sockets accepted over a run
MaxConns == 4
\* room codes makeCode can draw
MaxCodes == 1
\* (category, row, column) triples a start can draw
MaxCells == 1
\* well-formed hint texts
MaxHints == 1
\* player ids p1..pMaxTargets named in accuse and vote frames
MaxTargets == 1
\* sockets that close over a run
MaxCloses == 1
\* inherited names named in accuse and vote frames
MaxNames == 0
\* sockets that are open and bound to no room at a time
MaxIdle == 1
\* the clients that close are those of the sockets 1..MaxClosers
MaxClosers == 5
\* clients that send an array for a name
MaxArrays == 0
\* targets that are no strings named in accuse frames
MaxOdd == 0
\* targets that are no strings named in vote frames
MaxOddVotes == 0

Env == [conns |-> MaxConns, codes |-> MaxCodes, cells |-> MaxCells,
        hints |-> MaxHints, long |-> FALSE, targets |-> MaxTargets,
        closes |-> MaxCloses, names |-> MaxNames, idle |-> MaxIdle,
        closers |-> MaxClosers, arrays |-> MaxArrays, odd |-> MaxOdd,
        oddVotes |-> MaxOddVotes,
        rebind |-> FALSE,
        entries |-> 0, hostPlays |-> TRUE]

Next == NextIn(Env)

Spec == Init /\ [][Next]_vars

\* The capacity environment: few sockets, each joining again and again
CapConns == 2
CapEntries == 9
CapIdle == 2

CapEnv == [Env EXCEPT !.conns = CapConns, !.idle = CapIdle, !.rebind = TRUE,
                      !.entries = CapEntries]

NextCap == NextIn(CapEnv)

SpecCap == Init /\ [][NextCap]_vars

\* The rebinding environment: sockets that create and join more than once,
\* over more than one room
RebindConns == 3
RebindCodes == 1
RebindEntries == 4

RebindEnv == [Env EXCEPT !.conns = RebindConns, !.codes = RebindCodes,
                         !.rebind = TRUE, !.entries = RebindEntries]

NextRebind == NextIn(RebindEnv)

SpecRebind == Init /\ [][NextRebind]_vars

\* The hint environment: rebinding sockets that send two well-formed hint
\* texts and name no target, over three player entries
HintTexts == 2
HintTargets == 0
HintEntries == 3

HintEnv == [RebindEnv EXCEPT !.hints = HintTexts, !.targets = HintTargets,
                             !.entries = HintEntries]

NextHint == NextIn(HintEnv)

SpecHint == Init /\ [][NextHint]_vars

\* The tie environment: a display host and four players, who name two
\* targets
TieConns == 5
TieTargets == 2
\* the client that closes is the host's
TieClosers == 1
\* accuse frames also name ["p5"]
TieOdd == 1

TieEnv == [Env EXCEPT !.conns = TieConns, !.targets = TieTargets,
                      !.closers = TieClosers, !.odd = TieOdd,
                      !.hostPlays = FALSE]

NextTie == NextIn(TieEnv)

SpecTie == Init /\ [][NextTie]_vars

\* The names environment: a display host and four players, who name one
\* player and one name that `tally` inherits from Object.prototype
NamesConns == 5
NamesTargets == 1
NamesInherited == 1

NamesEnv == [Env EXCEPT !.conns = NamesConns, !.targets = NamesTargets,
                        !.names = NamesInherited, !.closers = TieClosers,
                        !.hostPlays = FALSE]

NextNames == NextIn(NamesEnv)

SpecNames == Init /\ [][NextNames]_vars

\* The odd-values environment: a display host and three players, the last
\* of whom may send an array for a name; accuse and vote frames name one
\* player and values that are no strings
OddConns == 4
OddArrays == 1
OddAccused == 2
OddVotes == 4

OddEnv == [Env EXCEPT !.conns = OddConns, !.arrays = OddArrays,
                      !.odd = OddAccused, !.oddVotes = OddVotes,
                      !.closers = TieClosers, !.hostPlays = FALSE]

NextOdd == NextIn(OddEnv)

SpecOdd == Init /\ [][NextOdd]_vars

\* The rooms environment: two sockets that create and join over two codes
RoomsConns == 2
RoomsCodes == 2
RoomsEntries == 2
RoomsIdle == 2
\* the client that connected last may send an array for a name
RoomsArrays == 1

RoomsEnv == [Env EXCEPT !.conns = RoomsConns, !.codes = RoomsCodes,
                        !.idle = RoomsIdle, !.arrays = RoomsArrays,
                        !.rebind = TRUE, !.entries = RoomsEntries]

NextRooms == NextIn(RoomsEnv)

SpecRooms == Init /\ [][NextRooms]_vars

\* The heartbeat environment: the clients on the sockets numbered
\* BeatPeriod, 2 * BeatPeriod, ... answer every ping before the next sweep,
\* the others answer none
BeatConns == 4
BeatPeriod == 2

BeatEnv == [Env EXCEPT !.conns = BeatConns, !.hostPlays = FALSE]

Answers(ws) == ws % BeatPeriod = 0

MaySweep ==
  /\ ~Rejected
  /\ \A ws \in 1..Len(conns) :
       (conns[ws].readyState = "OPEN" /\ Answers(ws)) => conns[ws].isAlive

NextBeat ==
  \/ NextIn(BeatEnv)
  \/ MaySweep /\ Sweep
  \/ \E ws \in Sockets : Answers(ws) /\ ~conns[ws].isAlive /\ Pong(ws)

SpecBeat == Init /\ [][NextBeat]_vars

-----------------------------------------------------------------------------
(* Properties *)

ErrorFrame(ws, code) == << [to |-> ws, type |-> "error", data |-> code] >>

AllSockets == 1..Len(conns)

\* C1: no step takes a room's players list past 8 entries, and a join_room
\* that carries a code and a name and names a room already holding 8 players
\* is answered with the error room_full and changes no room.
NeverOverCapacity ==
  [][/\ \A code \in DOMAIN rooms' : Len(rooms'[code].players) <= 8
     /\ \A ws \in AllSockets, code \in DOMAIN rooms :
          \A name \in { n \in NameInputs(ws) : Truthy(n) } :
            (/\ Len(rooms[code].players) >= 8
             /\ JoinRoom(ws, Str(code), name))
            => (sent' = ErrorFrame(ws, "room_full") /\ rooms' = rooms)]_vars

\* C1 witness: a room holds 8 players and the last frame was refused with
\* room_full.
FullRoomRefusesJoin ==
  \E code \in DOMAIN rooms :
    /\ Len(rooms[code].players) = 8
    /\ \E ws \in AllSockets : sent = ErrorFrame(ws, "room_full")

\* the entries of players that are not of socket ws
Without(players, ws) ==
  LET Keep(p) == p.ws # ws IN SelectSeq(players, Keep)

\* the 'close' of socket ws is emitted, or the process ends
Closes(ws) == conns[ws].readyState # "CLOSED" /\ conns'[ws].readyState = "CLOSED"

\* C2: a room that is not in lobby keeps its players list at every step,
\* except that the close of a socket removes that socket's entries; and a
\* join_room naming such a room is refused with game_already_started or
\* room_full and changes no room.
PlayersFrozenOutsideLobby ==
  [][\A code \in DOMAIN rooms :
       rooms[code].state # "lobby" =>
         /\ (code \in DOMAIN rooms' /\ rooms'[code].players # rooms[code].players)
              => \E ws \in AllSockets :
                   /\ Closes(ws)
                   /\ rooms'[code].players = Without(rooms[code].players, ws)
         /\ \A ws \in AllSockets :
              \A name \in { n \in NameInputs(ws) : Truthy(n) } :
                JoinRoom(ws, Str(code), name)
                => /\ sent' \in {ErrorFrame(ws, "game_already_started"),
                                 ErrorFrame(ws, "room_full")}
                   /\ rooms' = rooms]_vars

\* C2 witness: a join_room was refused with game_already_started while a
\* room waits for the chameleon's guess.
JoinRefusedMidRound ==
  /\ \E code \in DOMAIN rooms : rooms[code].state = "chameleon_guess"
  /\ \E ws \in AllSockets : sent = ErrorFrame(ws, "game_already_started")

AnyHint == HintInputs([hints |-> 2, long |-> TRUE])

\* C3: a step whose handler answers with an error frame changes neither the
\* room store nor any socket's binding; and a submit_hint handled while the
\* sender's room is not in hint is answered with an error and changes no
\* room.
ErrorsChangeNothing ==
  [][/\ (sent' # <<>> /\ sent'[1].type = "error")
          => (rooms' = rooms /\ conns' = conns /\ nextId' = nextId)
     /\ \A ws \in AllSockets, hint \in AnyHint :
          (/\ RoomsHas(conns[ws].roomCode)
           /\ rooms[conns[ws].roomCode.v].state # "hint"
           /\ SubmitHint(ws, hint))
          => (rooms' = rooms /\ sent' # <<>> /\ sent'[1].type = "error")]_vars

\* C3 witness: a submit_hint was refused in a room that is voting and holds
\* hints.
HintRefusedWhileVoting ==
  \E ws \in AllSockets :
    /\ RoomsHas(conns[ws].roomCode)
    /\ rooms[conns[ws].roomCode.v].state = "voting"
    /\ rooms[conns[ws].roomCode.v].hints # EmptyObject
    /\ sent \in {ErrorFrame(ws, "not_in_hint_phase"), ErrorFrame(ws, "not_in_hint")}

\* the phase a room enters when its hints are complete
AfterHint == IF Accusation THEN "accusation" ELSE "voting"

\* the handler that ran answered with something other than an error
Accepted == sent' = <<>> \/ sent'[1].type # "error"

\* C4 as stated: in a room in hint that holds exactly 3 players, the phase
\* moves on to accusation / voting at a step if and only if that step takes
\* the number of distinct hint entries from 2 to 3.
HintPhaseEndsWithThirdEntry ==
  [][\A code \in DOMAIN rooms :
       (/\ rooms[code].state = "hint"
        /\ Len(rooms[code].players) = 3
        /\ code \in DOMAIN rooms')
       => (rooms'[code].state = AfterHint
             <=> (/\ KeyCount(rooms[code].hints) = 2
                  /\ KeyCount(rooms'[code].hints) = 3))]_vars

\* C4 amended: in a room in hint that holds exactly 3 players, the phase
\* moves on only at a step after which 3 distinct hint entries are
\* recorded, and every accepted submit_hint after which 3 are recorded moves
\* it on (to accusation in part_000, to voting in server.js).
HintPhaseEndsAtThreeEntries ==
  [][\A code \in DOMAIN rooms :
       (/\ rooms[code].state = "hint"
        /\ Len(rooms[code].players) = 3
        /\ code \in DOMAIN rooms')
       => /\ rooms'[code].state \in {"accusation", "voting"}
               => (/\ KeyCount(rooms'[code].hints) = 3
                   /\ rooms'[code].state = AfterHint)
          /\ \A ws \in AllSockets, hint \in AnyHint :
               (/\ conns[ws].roomCode = Str(code)
                /\ SubmitHint(ws, hint)
                /\ Accepted)
               => (rooms'[code].state = AfterHint
                     <=> KeyCount(rooms'[code].hints) = 3)]_vars

\* C4 witness: a room of 3 players has just revealed its 3 hints.
ThreeHintsRevealed ==
  \E code \in DOMAIN rooms :
    /\ Len(rooms[code].players) = 3
    /\ KeyCount(rooms[code].hints) = 3
    /\ rooms[code].state = AfterHint
    /\ sent # <<>> /\ sent[1].type = "hints_revealed"

\* C8 as stated: an accepted submit_hint from a sender that already has a
\* hint entry, in phase hint, puts the new text in that entry, leaves the
\* other entries and their number as they were, and leaves the room in hint.
ResubmissionStaysInHint ==
  [][\A ws \in AllSockets, hint \in AnyHint :
       (/\ RoomsHas(conns[ws].roomCode)
        /\ rooms[conns[ws].roomCode.v].state = "hint"
        /\ conns[ws].id \in DOMAIN rooms[conns[ws].roomCode.v].hints
        /\ SubmitHint(ws, hint)
        /\ Accepted)
       => LET old == rooms[conns[ws].roomCode.v]
              new == rooms'[conns[ws].roomCode.v]
          IN /\ new.hints = [old.hints EXCEPT ![conns[ws].id] = hint.v]
             /\ new.state = "hint"]_vars

\* C8 amended: such a resubmission puts the new text in the sender's entry
\* and leaves the other entries and their number as they were; it moves the
\* room out of hint exactly when the entries already number as many as the
\* players, which happens once a disconnect has shortened the players list.
ResubmissionOverwrites ==
  [][\A ws \in AllSockets, hint \in AnyHint :
       (/\ RoomsHas(conns[ws].roomCode)
        /\ rooms[conns[ws].roomCode.v].state = "hint"
        /\ conns[ws].id \in DOMAIN rooms[conns[ws].roomCode.v].hints
        /\ SubmitHint(ws, hint)
        /\ Accepted)
       => LET old == rooms[conns[ws].roomCode.v]
              new == rooms'[conns[ws].roomCode.v]
          IN /\ new.hints = [old.hints EXCEPT ![conns[ws].id] = hint.v]
             /\ new.state # "hint" <=> KeyCount(old.hints) = Len(old.players)
             /\ new.state # "hint"
                  => \E gone \in AllSockets : conns[gone].readyState = "CLOSED"]_vars

\* C8 witness: a room in hint holds the second text h2 for a sender, fewer
\* hints than players, and has just reported hint_progress.
SecondHintRecorded ==
  \E code \in DOMAIN rooms :
    /\ rooms[code].state = "hint"
    /\ KeyCount(rooms[code].hints) = 1
    /\ \E id \in DOMAIN rooms[code].hints : rooms[code].hints[id] = <<"h", "2">>
    /\ sent # <<>> /\ sent[1].type = "hint_progress"

\* the votes tally to two targets with 2 votes each
TwoAgainstTwo(votes) ==
  LET targets == { String(votes[k]) : k \in DOMAIN votes }
  IN /\ KeyCount(votes) = 4
     /\ Cardinality(targets) = 2
     /\ \A key \in targets : VoteCount(votes, key) = 2

\* C5: when the vote of a room of 4 players is resolved on a tally of 2
\* votes against 2, the room ends in finished, not in chameleon_guess, and
\* the result sent is a round_result with success false, with reason
\* no_consensus (part_000) and with nobody accused.
TiedVoteIsNoConsensus ==
  [][\A code \in DOMAIN rooms :
       (/\ rooms[code].state = "voting"
        /\ Len(rooms[code].players) = 4
        /\ code \in DOMAIN rooms'
        /\ rooms'[code].state \in {"finished", "chameleon_guess"}
        /\ TwoAgainstTwo(rooms'[code].votes))
       => /\ rooms'[code].state = "finished"
          /\ sent' # <<>>
          /\ sent'[1].type = "round_result"
          /\ sent'[1].data.success = FALSE
          /\ IF Accusation
             THEN /\ sent'[1].data.reason = "no_consensus"
                  /\ "accusedId" \notin DOMAIN sent'[1].data
             ELSE sent'[1].data.accusedId = Null]_vars

\* the guess, trimmed and compared without regard to case, is the word
SameWord(guess, word) ==
  /\ guess.t = "string"
  /\ ToLowerCase(Trim(guess.v)) = ToLowerCase(word)

\* C6: a room enters chameleon_guess only on a chameleon_caught whose accused
\* is the chameleon; there, a chameleon_guess from the chameleon ends the
\* room in finished with a round_result whose success is false if and only
\* if the guess, trimmed and compared case-insensitively, equals
\* grid[coord.r][coord.c], and true for any other guess.
GuessDecidesCaughtRound ==
  [][/\ \A code \in DOMAIN rooms :
          (/\ rooms[code].state # "chameleon_guess"
           /\ code \in DOMAIN rooms'
           /\ rooms'[code].state = "chameleon_guess")
          => /\ sent' # <<>>
             /\ sent'[1].type = "chameleon_caught"
             /\ sent'[1].data.accusedId = rooms'[code].chameleonId
     /\ \A ws \in AllSockets, guess \in GuessInputs :
          (/\ RoomsHas(conns[ws].roomCode)
           /\ rooms[conns[ws].roomCode.v].state = "chameleon_guess"
           /\ Str(conns[ws].id) = rooms[conns[ws].roomCode.v].chameleonId
           /\ ChameleonGuess(ws, guess))
          => LET room == rooms[conns[ws].roomCode.v]
                 word == room.grid[room.coord.r + 1][room.coord.c + 1]
             IN /\ room.code \in DOMAIN rooms'
                /\ rooms'[room.code].state = "finished"
                /\ sent' # <<>>
                /\ sent'[1].type = "round_result"
                /\ sent'[1].data.success = ~SameWord(guess, word)]_vars

\* the sockets that a frame of the given type was just written to
SentTo(type) == { sent'[i].to : i \in { j \in 1..Len(sent') : sent'[j].type = type } }

\* C7: when the socket that created a room closes, whatever it created or
\* joined before, the room is absent from the store right after the close
\* and every player of the room whose socket is open was sent room_closed.
HostCloseRemovesRoom ==
  [][\A ws \in AllSockets, code \in DOMAIN rooms :
       (rooms[code].hostWs = ws /\ Closes(ws))
       => /\ code \notin DOMAIN rooms'
          /\ \A i \in 1..Len(rooms[code].players) :
               conns'[rooms[code].players[i].ws].readyState = "OPEN"
               => rooms[code].players[i].ws \in SentTo("room_closed")]_vars

\* the ids of the players currently in the room
PlayerIds(room) == { room.players[i].id : i \in 1..Len(room.players) }

\* the value is a string naming a player currently in the room
NamesPlayer(room, x) == x.t = "string" /\ x.v \in PlayerIds(room)

\* C9: in every room, chameleonId when set, every key of hints, every key
\* and value of votes and every accuser and accused of accusations is the id
\* of a player currently in the room's players list.
ReferencesArePlayers ==
  \A code \in DOMAIN rooms :
    LET room == rooms[code] IN
      /\ room.chameleonId # Null => NamesPlayer(room, room.chameleonId)
      /\ DOMAIN room.hints \subseteq PlayerIds(room)
      /\ DOMAIN room.votes \subseteq PlayerIds(room)
      /\ \A id \in DOMAIN room.votes : NamesPlayer(room, room.votes[id])
      /\ \A i \in 1..Len(room.accusations) :
           /\ room.accusations[i].accuserId \in PlayerIds(room)
           /\ NamesPlayer(room, room.accusations[i].accusedId)

\* C10: a room leaves the store only at the close of its host socket, or at
\* the close of its last player's socket when it has no host.
RoomRemovedOnlyWithoutHost ==
  [][\A code \in DOMAIN rooms :
       code \notin DOMAIN rooms'
       => \E ws \in AllSockets :
            /\ Closes(ws)
            /\ \/ rooms[code].hostWs = ws
               \/ /\ rooms[code].hostWs = NoWs
                  /\ Without(rooms[code].players, ws) = <<>>]_vars

\* C11: in part_000 a host_reset from the host of the sender's room, in any
\* phase, puts the room in lobby with category, grid, coord, chameleonId,
\* hints, votes and accusations cleared and with its players, host and code
\* as they were, and touches no other room; a host_reset from any other
\* socket changes no room and no socket.  (server.js has no host_reset: there
\* every host_reset changes nothing.)
HostResetRestoresLobby ==
  [][\A ws \in AllSockets :
       HostReset(ws) =>
         /\ conns' = conns /\ nextId' = nextId
         /\ IF /\ Accusation
               /\ RoomsHas(conns[ws].roomCode)
               /\ rooms[conns[ws].roomCode.v].hostWs = ws
            THEN LET room == rooms[conns[ws].roomCode.v]
                     after == rooms'[room.code]
                 IN /\ DOMAIN rooms' = DOMAIN rooms
                    /\ \A code \in DOMAIN rooms \ {room.code} :
                         rooms'[code] = rooms[code]
                    /\ after.state = "lobby"
                    /\ after.category = NoCategory
                    /\ after.grid = <<>>
                    /\ after.coord = NoCoord
                    /\ after.chameleonId = Null
                    /\ after.hints = EmptyObject
                    /\ after.votes = EmptyObject
                    /\ after.accusations = <<>>
                    /\ after.players = room.players
                    /\ after.hostWs = room.hostWs
                    /\ after.code = room.code
            ELSE rooms' = rooms]_vars

\* C11 witness: a round of part_000 has ended in finished with hints, votes
\* and an accusation recorded and its host connected, the state in which a
\* host_reset has the most to clear.
RoundEndedAwaitingReset ==
  \E code \in DOMAIN rooms :
    /\ Accusation
    /\ rooms[code].state = "finished"
    /\ rooms[code].hints # EmptyObject
    /\ rooms[code].votes # EmptyObject
    /\ rooms[code].accusations # <<>>
    /\ conns[rooms[code].hostWs].readyState = "OPEN"
    /\ ENABLED HostReset(rooms[code].hostWs)

\* C12: a room leaves voting for finished or chameleon_guess only at a step
\* after which every player in its players list has an entry in votes, and
\* leaves hint for accusation or voting only at a step after which every
\* player in its players list has an entry in hints.
ResolvedOnlyWhenAllPlayersIn ==
  [][\A code \in DOMAIN rooms :
       code \in DOMAIN rooms' =>
         /\ (/\ rooms[code].state = "voting"
             /\ rooms'[code].state \in {"finished", "chameleon_guess"})
            => PlayerIds(rooms'[code]) \subseteq DOMAIN rooms'[code].votes
         /\ (/\ rooms[code].state = "hint"
             /\ rooms'[code].state \in {"accusation", "voting"})
            => PlayerIds(rooms'[code]) \subseteq DOMAIN rooms'[code].hints]_vars

\* the phases of a round before its result is out
InRound == {"hint", "accusation", "voting", "chameleon_guess"}

\* C13: at every step that acts on a room and leaves it in a round whose
\* result is not out, no frame written to the socket of the room's chameleon
\* carries the coordinate, the grid or the secret word, and the only start
\* frame written to it is game_start_player with role chameleon.
ChameleonLearnsNothing ==
  [][\A code \in (DOMAIN rooms) \cap (DOMAIN rooms') :
       (rooms'[code] # rooms[code] /\ rooms'[code].state \in InRound)
       => \A i \in 1..Len(sent') :
            Str(conns[sent'[i].to].id) = rooms'[code].chameleonId
            => /\ DOMAIN sent'[i].data \cap {"coord", "grid", "secretWord"} = {}
               /\ sent'[i].type \in {"game_start_player", "game_start_host"}
                  => /\ sent'[i].type = "game_start_player"
                     /\ sent'[i].data.role = "chameleon"]_vars

\* the frame types that go through broadcast
BroadcastTypes ==
  {"room_update", "hint_progress", "hints_revealed", "voting_start",
   "vote_progress", "chameleon_caught", "round_result"}

\* the sockets of the room's players, and its host's
Recipients(room) ==
  { room.players[i].ws : i \in 1..Len(room.players) }
    \cup (IF room.hostWs # NoWs THEN {room.hostWs} ELSE {})

\* how many frames of the type the step wrote to the socket
Copies(type, ws) ==
  Cardinality({ i \in 1..Len(sent') : sent'[i].type = type /\ sent'[i].to = ws })

\* C14: at every step that acts on a room and broadcasts, each open socket
\* among the room's players and host is written to exactly once per
\* broadcast, and no other socket is written to.
BroadcastReachesEachOnce ==
  [][\A code \in (DOMAIN rooms) \cap (DOMAIN rooms') :
       rooms'[code] # rooms[code]
       => \A type \in BroadcastTypes :
            (\E i \in 1..Len(sent') : sent'[i].type = type)
            => \A ws \in AllSockets :
                 Copies(type, ws) =
                   IF /\ ws \in Recipients(rooms'[code])
                      /\ conns'[ws].readyState = "OPEN"
                   THEN 1 ELSE 0]_vars

\* C15: every room is stored under its own code, so no two stored rooms
\* share a code, and a create_room adds one room and leaves every room
\* already in the store in place and as it was.
CodesStayUnique ==
  [][/\ \A code \in DOMAIN rooms' : rooms'[code].code = code
     /\ \A ws \in AllSockets, draws \in CodeDraws(RoomsEnv) :
          CreateRoom(ws, draws)
          => /\ Cardinality(DOMAIN rooms') = Cardinality(DOMAIN rooms) + 1
             /\ \A code \in DOMAIN rooms :
                  code \in DOMAIN rooms' /\ rooms'[code] = rooms[code]]_vars

\* C15 witness: a second room has just been created next to a first one
\* that has a player.
SecondRoomCreated ==
  /\ Cardinality(DOMAIN rooms) = 2
  /\ \E code \in DOMAIN rooms : rooms[code].players # <<>>
  /\ sent # <<>> /\ sent[1].type = "room_created"

\* C16: no room's players list holds two entries with the same id.
PlayersAreDistinct ==
  \A code \in DOMAIN rooms :
    \A i, j \in 1..Len(rooms[code].players) :
      rooms[code].players[i].id = rooms[code].players[j].id => i = j

\* the phase changes of a round, in either program
PhaseEdges ==
  IF Accusation
  THEN {<<"lobby", "hint">>, <<"hint", "accusation">>,
        <<"accusation", "voting">>, <<"voting", "chameleon_guess">>,
        <<"voting", "finished">>, <<"chameleon_guess", "finished">>}
  ELSE {<<"lobby", "hint">>, <<"hint", "voting">>, <<"voting", "finished">>}

\* C17: a room's phase changes only along the edges of the round or back to
\* lobby, and a host_start_game sent while the room is not in lobby changes
\* no room.
PhaseFollowsEdges ==
  [][/\ \A code \in (DOMAIN rooms) \cap (DOMAIN rooms') :
          rooms'[code].state # rooms[code].state
          => \/ rooms'[code].state = "lobby"
             \/ <<rooms[code].state, rooms'[code].state>> \in PhaseEdges
     /\ \A ws \in AllSockets :
          (/\ RoomsHas(conns[ws].roomCode)
           /\ rooms[conns[ws].roomCode.v].state # "lobby"
           /\ HostStartGame(ws, CellDraws(Env)))
          => rooms' = rooms]_vars

\* the accused of a resolution as C18 states it
FirstAccusedElseWinner(room) ==
  IF room.accusations # <<>> THEN room.accusations[1].accusedId
  ELSE IF Cardinality(Winners(room.votes)) = 1
       THEN Str(CHOOSE id \in Winners(room.votes) : TRUE)
       ELSE Null

\* a frame of the type was just written
Wrote(type) == \E i \in 1..Len(sent') : sent'[i].type = type

\* C18: when part_000 resolves a vote, the accused is the target of the
\* first accusation if there is one, else the unique tally winner, else
\* null; if the accused is the chameleon the room enters chameleon_guess
\* with chameleon_caught and no round_result; if it is another identity the
\* room ends in finished with round_result success false, reason
\* wrong_accusation.
ResolutionFollowsAccusation ==
  [][\A code \in (DOMAIN rooms) \cap (DOMAIN rooms') :
       (/\ Accusation
        /\ rooms[code].state = "voting"
        /\ rooms'[code].state \in {"finished", "chameleon_guess"})
       => LET room == rooms'[code]
              accused == FirstAccusedElseWinner(room)
          IN /\ sent' # <<>>
             /\ IF accused = Null
                THEN /\ room.state = "finished"
                     /\ sent'[1].type = "round_result"
                     /\ sent'[1].data.reason = "no_consensus"
                ELSE IF accused = room.chameleonId
                THEN /\ room.state = "chameleon_guess"
                     /\ sent'[1].type = "chameleon_caught"
                     /\ sent'[1].data.accusedId = accused
                     /\ ~Wrote("round_result")
                ELSE /\ room.state = "finished"
                     /\ sent'[1].type = "round_result"
                     /\ sent'[1].data.success = FALSE
                     /\ sent'[1].data.reason = "wrong_accusation"
                     /\ sent'[1].data.accusedId = accused]_vars

\* C18 witness: the chameleon, accused first, has just been caught although
\* every vote names somebody else.
CaughtAgainstTheTally ==
  \E code \in DOMAIN rooms :
    /\ rooms[code].state = "chameleon_guess"
    /\ sent # <<>> /\ sent[1].type = "chameleon_caught"
    /\ rooms[code].accusations # <<>>
    /\ rooms[code].accusations[1].accusedId = rooms[code].chameleonId
    /\ KeyCount(rooms[code].votes) = 4
    /\ \A id \in DOMAIN rooms[code].votes :
         rooms[code].votes[id] # rooms[code].chameleonId

\* C19: no room in the store has a closed socket as its host or as the
\* socket of one of its players.
ClosedSocketsAreUnlinked ==
  \A ws \in AllSockets :
    conns[ws].readyState = "CLOSED"
    => \A code \in DOMAIN rooms :
         /\ rooms[code].hostWs # ws
         /\ \A i \in 1..Len(rooms[code].players) : rooms[code].players[i].ws # ws

\* C20: a socket that has a room code and a role keeps both at every step
\* that leaves it open.
BindingIsPermanent ==
  [][\A ws \in AllSockets :
       (Bound(ws) /\ conns'[ws].readyState = "OPEN")
       => /\ conns'[ws].roomCode = conns[ws].roomCode
          /\ conns'[ws].role = conns[ws].role]_vars

\* C21: a sweep terminates every open socket whose isAlive is false and
\* clears the flag of, and leaves open, every open socket whose isAlive is
\* true; the 'close' of a terminated socket removes it from the players of
\* its room or, if it is the host, deletes the room and writes room_closed
\* to each open player; a socket whose client answers no ping keeps a false
\* flag from the first sweep to the second, which terminates it; a socket
\* whose client answers every ping is left open by every sweep, and a socket
\* that is closing when a sweep runs stays closing.
SweepDropsSilentSockets ==
  [][/\ Sweep =>
          \A ws \in AllSockets :
            conns[ws].readyState = "OPEN"
            => IF conns[ws].isAlive
               THEN /\ conns'[ws].readyState = "OPEN"
                    /\ ~conns'[ws].isAlive
               ELSE conns'[ws].readyState = "CLOSING"
     /\ Sweep =>
          \A ws \in AllSockets :
            conns[ws].readyState = "CLOSING"
            => /\ conns'[ws].readyState = "CLOSING"
               /\ ~conns'[ws].isAlive
     /\ \A ws \in AllSockets :
          /\ (EmitClose(ws) /\ RoomsHas(conns[ws].roomCode))
             => LET room == rooms[conns[ws].roomCode.v] IN
                  /\ conns'[ws].readyState = "CLOSED"
                  /\ IF room.hostWs = ws
                     THEN /\ room.code \notin DOMAIN rooms'
                          /\ \A i \in 1..Len(room.players) :
                               conns'[room.players[i].ws].readyState = "OPEN"
                               => room.players[i].ws \in SentTo("room_closed")
                     ELSE room.code \in DOMAIN rooms'
                          => rooms'[room.code].players = Without(room.players, ws)
          /\ (/\ ~Answers(ws)
              /\ conns[ws].readyState = "OPEN"
              /\ ~conns[ws].isAlive)
             => ~conns'[ws].isAlive
          /\ (MaySweep /\ Sweep /\ Answers(ws) /\ conns[ws].readyState = "OPEN")
             => conns'[ws].readyState = "OPEN"]_vars

\* C21 witness: a sweep has just terminated a silent player of a room whose
\* round is running, and has pinged a socket that answers.
SilentPlayerTerminated ==
  \E ws \in 1..Len(conns), code \in DOMAIN rooms :
    /\ conns[ws].readyState = "CLOSING"
    /\ ~Answers(ws)
    /\ rooms[code].state = "hint"
    /\ \E i \in 1..Len(rooms[code].players) : rooms[code].players[i].ws = ws
    /\ \E other \in 1..Len(conns) :
         /\ Answers(other)
         /\ conns[other].readyState = "OPEN"
         /\ ~conns[other].isAlive

\* C22: the two programs decide alike on the events they share.  In every
\* reachable state, for every room and every player of it that is not its
\* host, the close of that player's socket keeps the room in the store
\* under both programs or deletes it under both; and
\* for every room in hint, both programs accept the same hints.
VariantsDecideAlike ==
  \A code \in DOMAIN rooms :
    LET room == rooms[code] IN
      /\ \A i \in 1..Len(room.players) :
           room.players[i].ws # room.hostWs
           => LET left == [room EXCEPT
                             !.players = FilterPlayers(@, room.players[i].id)]
              IN (Len(CloseClientsIn(TRUE, left)) > 0)
                   = (Len(CloseClientsIn(FALSE, left)) > 0)
      /\ room.state = "hint"
         => \A hint \in AnyHint :
              HintValidIn(TRUE, hint) = HintValidIn(FALSE, hint)

\* the handler that just ran answered with one error frame and changed no
\* room
Refused == Len(sent') = 1 /\ sent'[1].type = "error" /\ rooms' = rooms

\* C23: a step writes round_result only while taking a room from voting or
\* chameleon_guess to finished; a finished room leaves finished only for
\* lobby or hint, which only host_reset and host_start_game set; and every
\* submit_hint, accuse, vote and chameleon_guess from a socket of a finished
\* room is refused.  So one round writes round_result at most once.
OneResultPerRound ==
  [][/\ Wrote("round_result")
        => \E code \in (DOMAIN rooms) \cap (DOMAIN rooms') :
             /\ rooms[code].state \in {"voting", "chameleon_guess"}
             /\ rooms'[code].state = "finished"
             /\ \A other \in (DOMAIN rooms) \ {code} :
                  other \in DOMAIN rooms' /\ rooms'[other] = rooms[other]
     /\ \A code \in (DOMAIN rooms) \cap (DOMAIN rooms') :
          (rooms[code].state = "finished" /\ rooms'[code].state # "finished")
          => /\ rooms'[code].state \in {"lobby", "hint"}
             /\ \/ HostReset(rooms[code].hostWs)
                \/ HostStartGame(rooms[code].hostWs, CellDraws(Env))
     /\ \A ws \in AllSockets :
          (/\ RoomsHas(conns[ws].roomCode)
           /\ rooms[conns[ws].roomCode.v].state = "finished")
          => /\ \A hint \in AnyHint : SubmitHint(ws, hint) => Refused
             /\ \A id \in AccusedInputs(Env) : Accuse(ws, id) => Refused
             /\ \A id \in VoteInputs(Env) : Vote(ws, id) => Refused
             /\ \A guess \in GuessInputs : ChameleonGuess(ws, guess) => Refused]_vars

\* C23 witness: a vote sent to a finished room, after its round_result, has
\* just been refused.
VoteRefusedAfterResult ==
  \E code \in DOMAIN rooms :
    /\ rooms[code].state = "finished"
    /\ KeyCount(rooms[code].votes) > 0
    /\ Len(sent) = 1
    /\ sent[1].type = "error"
    /\ sent[1].data \in {"not_in_voting_phase", "not_in_voting"}
    /\ conns[sent[1].to].roomCode = Str(code)

=============================================================================
